---- MODULE Spec2Model ----
(***************************************************************************)
(* Model of the ResiLIVE access-control server.                            *)
(*                                                                         *)
(* Two iterations of the server are modelled side by side:                 *)
(*   - src/server.js          the document-database (Firestore) server     *)
(*   - src/unnamed/part_001   the file-based server (data.json,            *)
(*                            users.json, access_logs.json)                *)
(*                                                                         *)
(* Every route handler is an async function: each `await` is a point where *)
(* other handlers and the sweep timer may run.  A handler is therefore     *)
(* modelled as a sequence of steps, one per awaited database operation,    *)
(* and the code between two awaits is one atomic step.                     *)
(*                                                                         *)
(* Payload fields that no branch of the code reads (street, description,   *)
(* code string, action, createdAt/updatedAt) are left out of the records.  *)
(***************************************************************************)
EXTENDS Integers, Sequences, FiniteSets, TLC

VARIABLES
    variant,          \* which server runs: "firestore" (server.js) or "file" (part_001)
    users,            \* collection 'users':       doc id -> [username, password, role]
    communities,      \* collection 'communities': doc id -> [name, addresses, allowedUsers]
    accessLogs,       \* collection 'access_logs': doc id -> [community, player, timestamp]
    lastAccessTimes,  \* in-memory debounce map:   key -> time of the last accepted attempt
    dataFile,         \* part_001 data.json: sequence of community records
    accessLogsFile,   \* part_001 access_logs.json: sequence of [name, logs]
    sessions,         \* session id -> [userId, username, userRole]
    req,              \* request slot -> the handler invocation running in it
    sweep,            \* the removeExpiredCodes invocation started by setInterval
    clock,            \* Date.now()
    nextId,           \* auto-generated document ids handed out so far
    started,          \* requests received and sweeps started so far
    accepted          \* history: (community, player) -> time of the last accepted log-access

vars == <<variant, users, communities, accessLogs, lastAccessTimes, dataFile,
          accessLogsFile, sessions, req, sweep, clock, nextId, started, accepted>>

(***************************************************************************)
(* Bounds of the model.                                                    *)
(***************************************************************************)
MaxReqs == 4           \* requests received after Init
MaxTicks == 2          \* clock advances after Init

(***************************************************************************)
(* Program constants.                                                      *)
(***************************************************************************)
MaxCommunities == 8        \* server.js: snapshot.size >= 8
MaxCommunitiesFile == 9    \* part_001: jsonData.communities.length >= 9
DebounceMs == 5000         \* currentTime - lastAccessTime < 5000
StartTime == 100000        \* Date.now() when the model starts (well past the epoch)

Slots == {"r1", "r2"}      \* requests that can be in flight together
NoUser == 0                \* req.session.userId of a session that never logged in

(***************************************************************************)
(* Generic helpers.                                                        *)
(***************************************************************************)
Min(S) == CHOOSE x \in S : \A y \in S : x <= y

RECURSIVE SortedSeq(_)
\* The elements of a finite set of integers in ascending order.
SortedSeq(S) == IF S = {} THEN <<>> ELSE <<Min(S)>> \o SortedSeq(S \ {Min(S)})

Range(f) == {f[i] : i \in DOMAIN f}

\* Array.prototype.includes
Includes(seq, x) == \E i \in DOMAIN seq : seq[i] = x

\* doc(id).delete() / batch.delete(): removing a missing document is a no-op
Without(coll, ids) == [i \in DOMAIN coll \ ids |-> coll[i]]

\* doc(id).set(rec): creates or overwrites
WithDoc(coll, id, rec) == [i \in DOMAIN coll \cup {id} |-> IF i = id THEN rec ELSE coll[i]]

Idle == [pc |-> "idle"]
Free(s) == req[s].pc \in {"idle", "done"}
InFlight(s) == ~Free(s)

(***************************************************************************)
(* Middleware.                                                             *)
(***************************************************************************)
requireAuth(sid) == sessions[sid].userId # NoUser

requireAdmin(sid) ==
    /\ sessions[sid].userId # NoUser
    /\ sessions[sid].userRole \in {"admin", "superuser"}

\* The status a route guarded by requireAuth, requireAdmin answers before its
\* handler runs; 0 when the request is let through.
AdminGuard(sid) ==
    IF ~requireAuth(sid) THEN 401
    ELSE IF ~requireAdmin(sid) THEN 403
    ELSE 0

AuthGuard(sid) == IF ~requireAuth(sid) THEN 401 ELSE 0

Done(kind, sid, status) == [pc |-> "done", kind |-> kind, sid |-> sid, status |-> status]

\* A request arrives in a free slot; r is the handler invocation after the
\* route's middleware and the code before its first await have run.
Receive(s, r) ==
    /\ Free(s)
    /\ started < MaxReqs
    /\ started' = started + 1
    /\ req' = [req EXCEPT ![s] = r]
    /\ UNCHANGED <<variant, users, communities, accessLogs, lastAccessTimes, dataFile,
                   accessLogsFile, sessions, sweep, clock, nextId, accepted>>

(***************************************************************************)
(* CSRF middleware.  server.js exempts one path; part_001 mounts            *)
(* lusca.csrf() for every route.                                           *)
(***************************************************************************)
\* lusca.csrf(): requests with a safe method pass, others need the token of
\* their session
SafeMethods == {"GET", "HEAD", "OPTIONS"}

luscaCsrf(method, tokenOk) == method \in SafeMethods \/ tokenOk

\* server.js: if (req.path !== '/api/log-access') lusca.csrf()(req, res, next) else next()
\* part_001:  app.use(lusca.csrf())
CsrfPasses(path, method, tokenOk) ==
    IF variant = "firestore"
    THEN path = "/api/log-access" \/ luscaCsrf(method, tokenOk)
    ELSE luscaCsrf(method, tokenOk)

\* the middleware in front of a route: the route's handler runs, or the
\* request is answered 403 by the middleware
Csrf(s, sid, path, method, tokenOk, handler) ==
    IF CsrfPasses(path, method, tokenOk)
    THEN handler
    ELSE Receive(s, Done("csrf", sid, 403) @@ [path |-> path, method |-> method])

(***************************************************************************)
(* POST /api/communities  (server.js)                                      *)
(***************************************************************************)
\* `allowedUsers: req.body.allowedUsers || []` : an absent field is the empty list
PostCommunityBegin(s, sid, name, allowedUsers) ==
    /\ variant = "firestore"
    /\ Receive(s,
                 IF AdminGuard(sid) # 0
                 THEN Done("postCommunity", sid, AdminGuard(sid))
                 ELSE [pc |-> "count", kind |-> "postCommunity", sid |-> sid,
                       name |-> name, allowedUsers |-> allowedUsers])

\* a cap check that lets one community too many through
CommunityCapReachedOffByOne(n) == n > MaxCommunities

\* const snapshot = await db.collection('communities').get(); if (snapshot.size >= 8) ...
CommunityCapReached(n) == n >= MaxCommunities

PostCommunityCount(s) ==
    /\ req[s].pc = "count" /\ req[s].kind = "postCommunity"
    /\ req' = [req EXCEPT ![s] =
                 IF CommunityCapReached(Cardinality(DOMAIN communities))
                 THEN Done("postCommunity", req[s].sid, 400) @@ [name |-> req[s].name]
                 ELSE [req[s] EXCEPT !.pc = "add"]]
    /\ UNCHANGED <<variant, users, communities, accessLogs, lastAccessTimes, dataFile,
                   accessLogsFile, sessions, sweep, clock, nextId, started, accepted>>

\* Firestore's add() generates a fresh document id
AutoId(n) == 50 + n

\* const docRef = await db.collection('communities').add(newCommunity);
PostCommunityAdd(s) ==
    /\ req[s].pc = "add" /\ req[s].kind = "postCommunity"
    /\ nextId' = nextId + 1
    /\ communities' = WithDoc(communities, AutoId(nextId),
                              [name |-> req[s].name, addresses |-> <<>>,
                               allowedUsers |-> req[s].allowedUsers])
    /\ req' = [req EXCEPT ![s] = [req[s] EXCEPT !.pc = "readback"] @@
                                 [id |-> AutoId(nextId)]]
    /\ UNCHANGED <<variant, users, accessLogs, lastAccessTimes, dataFile,
                   accessLogsFile, sessions, sweep, clock, started, accepted>>

\* const createdDoc = await docRef.get();
\* communityData = { id: docRef.id, ...createdDoc.data() }  -- data() of a document
\* deleted in the meantime is undefined and spreads to nothing
PostCommunityReadback(s) ==
    /\ req[s].pc = "readback" /\ req[s].kind = "postCommunity"
    /\ req' = [req EXCEPT ![s] =
                 Done("postCommunity", req[s].sid, 201) @@
                 [id |-> req[s].id,
                  body |-> IF req[s].id \in DOMAIN communities
                           THEN [id |-> req[s].id] @@ communities[req[s].id]
                           ELSE [id |-> req[s].id]]]
    /\ UNCHANGED <<variant, users, communities, accessLogs, lastAccessTimes, dataFile,
                   accessLogsFile, sessions, sweep, clock, nextId, started, accepted>>

(***************************************************************************)
(* DELETE /api/communities/:id  (server.js, the handler registered first:  *)
(* it answers without calling next(), so the duplicate registered later    *)
(* never runs)                                                             *)
(***************************************************************************)
DeleteCommunityBegin(s, sid, id) ==
    /\ variant = "firestore"
    /\ Receive(s,
                 IF AdminGuard(sid) # 0
                 THEN Done("deleteCommunity", sid, AdminGuard(sid))
                 ELSE [pc |-> "getDoc", kind |-> "deleteCommunity", sid |-> sid, id |-> id])

\* const communityDoc = await communityRef.get(); if (!communityDoc.exists) 404
DeleteCommunityGetDoc(s) ==
    /\ req[s].pc = "getDoc" /\ req[s].kind = "deleteCommunity"
    /\ req' = [req EXCEPT ![s] =
                 IF req[s].id \notin DOMAIN communities
                 THEN Done("deleteCommunity", req[s].sid, 404)
                 ELSE [pc |-> "getLogs", kind |-> "deleteCommunity", sid |-> req[s].sid,
                       id |-> req[s].id, name |-> communities[req[s].id].name]]
    /\ UNCHANGED <<variant, users, communities, accessLogs, lastAccessTimes, dataFile,
                   accessLogsFile, sessions, sweep, clock, nextId, started, accepted>>

\* .where('community', '==', communityName)
LogsOf(name) == {l \in DOMAIN accessLogs : accessLogs[l].community = name}

\* const logsSnapshot = await db.collection('access_logs').where(...).get();
DeleteCommunityGetLogs(s) ==
    /\ req[s].pc = "getLogs" /\ req[s].kind = "deleteCommunity"
    /\ req' = [req EXCEPT ![s] = [req[s] EXCEPT !.pc = "commit"] @@
                                 [logs |-> LogsOf(req[s].name)]]
    /\ UNCHANGED <<variant, users, communities, accessLogs, lastAccessTimes, dataFile,
                   accessLogsFile, sessions, sweep, clock, nextId, started, accepted>>

\* await batch.commit();  -- deletes the community and the logs of the snapshot
DeleteCommunityCommit(s) ==
    /\ req[s].pc = "commit" /\ req[s].kind = "deleteCommunity"
    /\ communities' = Without(communities, {req[s].id})
    /\ accessLogs' = Without(accessLogs, req[s].logs)
    /\ req' = [req EXCEPT ![s] = Done("deleteCommunity", req[s].sid, 200) @@
                                 [id |-> req[s].id, name |-> req[s].name]]
    /\ UNCHANGED <<variant, users, lastAccessTimes, dataFile,
                   accessLogsFile, sessions, sweep, clock, nextId, started, accepted>>

(***************************************************************************)
(* GET /api/communities  (server.js)                                       *)
(***************************************************************************)
\* a filter that shows every community to every logged-in user
VisibleToAll(sid, c) == TRUE

\* the filter of the handler: admins and superusers see everything, others
\* the communities whose allowedUsers includes req.session.username
Visible(sid, c) ==
    \/ sessions[sid].userRole = "admin"
    \/ sessions[sid].userRole = "superuser"
    \/ Includes(c.allowedUsers, sessions[sid].username)

GetCommunities(s, sid) ==
    /\ variant = "firestore"
    /\ Receive(s,
                 IF AuthGuard(sid) # 0
                 THEN Done("getCommunities", sid, AuthGuard(sid))
                 ELSE [pc |-> "get", kind |-> "getCommunities", sid |-> sid])

\* const snapshot = await db.collection('communities').get(); res.json(visibleCommunities)
GetCommunitiesRespond(s) ==
    /\ req[s].pc = "get" /\ req[s].kind = "getCommunities"
    /\ req' = [req EXCEPT ![s] =
                 Done("getCommunities", req[s].sid, 200) @@
                 [body |-> {i \in DOMAIN communities : Visible(req[s].sid, communities[i])}]]
    /\ UNCHANGED <<variant, users, communities, accessLogs, lastAccessTimes, dataFile,
                   accessLogsFile, sessions, sweep, clock, nextId, started, accepted>>

(***************************************************************************)
(* Users and allow-lists  (server.js)                                      *)
(***************************************************************************)
\* a field the request body does not carry: `const { username, password } =
\* req.body` binds it to undefined
undefined == "<undefined>"

\* String.prototype.toLowerCase on the user names of the model
toLowerCase(n) ==
    CASE n = "Amy" -> "amy"
      [] n = "AMY" -> "amy"
      [] n = "Bob" -> "bob"
      [] n = "BOB" -> "bob"
      [] OTHER -> n

\* snapshot.docs.map(doc => ({ id: doc.id, ...doc.data() })): Firestore returns
\* the documents of a collection ordered by document id
Docs(coll) ==
    LET ids == SortedSeq(DOMAIN coll)
    IN [k \in 1..Len(ids) |-> [id |-> ids[k]] @@ coll[ids[k]]]

\* users.find(u => u.username.toLowerCase() === username): the first match
FindUser(userList, username) ==
    LET matches == {k \in DOMAIN userList : toLowerCase(userList[k].username) = username}
    IN IF matches = {} THEN <<>> ELSE <<userList[Min(matches)]>>

\* a validation that lets admins and superusers onto the allow-list
MayBeAllowedAnyRole(user) == TRUE

\* user.role !== 'admin' && user.role !== 'superuser'
MayBeAllowed(user) == user.role # "admin" /\ user.role # "superuser"

\* the `for (const username of normalizedAllowedUsers)` loop of
\* PUT /api/communities/:id/allowed-users
RECURSIVE Validate(_, _, _, _)
Validate(names, userList, validUsers, invalidUsers) ==
    IF names = <<>>
    THEN [validUsers |-> validUsers, invalidUsers |-> invalidUsers]
    ELSE LET username == Head(names)
             found == FindUser(userList, username)
         IN IF found # <<>> /\ MayBeAllowed(found[1])
            THEN Validate(Tail(names), userList,
                          IF Includes(validUsers, found[1].username)
                          THEN validUsers
                          ELSE Append(validUsers, found[1].username),
                          invalidUsers)
            ELSE Validate(Tail(names), userList, validUsers,
                          Append(invalidUsers, username))

PutAllowedUsersBegin(s, sid, id, allowedUsers) ==
    /\ variant = "firestore"
    /\ Receive(s,
                 IF AdminGuard(sid) # 0
                 THEN Done("putAllowedUsers", sid, AdminGuard(sid))
                 ELSE [pc |-> "getDoc", kind |-> "putAllowedUsers", sid |-> sid,
                       id |-> id, allowedUsers |-> allowedUsers])

\* const communityDoc = await communityRef.get(); if (!communityDoc.exists) 404
PutAllowedUsersGetDoc(s) ==
    /\ req[s].pc = "getDoc" /\ req[s].kind = "putAllowedUsers"
    /\ req' = [req EXCEPT ![s] =
                 IF req[s].id \notin DOMAIN communities
                 THEN Done("putAllowedUsers", req[s].sid, 404)
                 ELSE [req[s] EXCEPT !.pc = "getUsers"]]
    /\ UNCHANGED <<variant, users, communities, accessLogs, lastAccessTimes, dataFile,
                   accessLogsFile, sessions, sweep, clock, nextId, started, accepted>>

\* const usersSnapshot = await db.collection('users').get(); ... validation loop
PutAllowedUsersGetUsers(s) ==
    /\ req[s].pc = "getUsers" /\ req[s].kind = "putAllowedUsers"
    /\ LET normalizedAllowedUsers ==
               [k \in DOMAIN req[s].allowedUsers |-> toLowerCase(req[s].allowedUsers[k])]
           v == Validate(normalizedAllowedUsers, Docs(users), <<>>, <<>>)
       IN req' = [req EXCEPT ![s] =
                    [pc |-> "update", kind |-> "putAllowedUsers", sid |-> req[s].sid,
                     id |-> req[s].id, allowedUsers |-> req[s].allowedUsers,
                     validUsers |-> v.validUsers, invalidUsers |-> v.invalidUsers]]
    /\ UNCHANGED <<variant, users, communities, accessLogs, lastAccessTimes, dataFile,
                   accessLogsFile, sessions, sweep, clock, nextId, started, accepted>>

\* await communityRef.update({ allowedUsers: validUsers, ... }): update() rejects
\* when the document no longer exists, and the catch answers 500
PutAllowedUsersUpdate(s) ==
    /\ req[s].pc = "update" /\ req[s].kind = "putAllowedUsers"
    /\ IF req[s].id \in DOMAIN communities
       THEN /\ communities' = [communities EXCEPT
                                 ![req[s].id].allowedUsers = req[s].validUsers]
            /\ req' = [req EXCEPT ![s] =
                         Done("putAllowedUsers", req[s].sid, 200) @@
                         [id |-> req[s].id, allowedUsers |-> req[s].allowedUsers,
                          validUsers |-> req[s].validUsers,
                          invalidUsers |-> req[s].invalidUsers]]
       ELSE /\ communities' = communities
            /\ req' = [req EXCEPT ![s] = Done("putAllowedUsers", req[s].sid, 500)]
    /\ UNCHANGED <<variant, users, accessLogs, lastAccessTimes, dataFile,
                   accessLogsFile, sessions, sweep, clock, nextId, started, accepted>>

\* a cascade that updates nothing
PurgeUpdatesNone(username) == <<>>

\* The allow-list cascade shared by role toggle and user deletion:
\* for every community of the snapshot whose allowedUsers includes the name,
\* batch.update(doc.ref, { allowedUsers: filtered })
PurgeUpdates(username) ==
    [i \in {j \in DOMAIN communities : Includes(communities[j].allowedUsers, username)} |->
        SelectSeq(communities[i].allowedUsers, LAMBDA u : u # username)]

\* a commit that drops the batch's updates
ApplyUpdatesNone(updates) == communities

\* batch.commit() of a batch of update()s: all are applied, or, when one of the
\* documents no longer exists, the commit rejects and none is
BatchApplies(updates) == DOMAIN updates \subseteq DOMAIN communities

ApplyUpdates(updates) ==
    [i \in DOMAIN communities |->
        IF i \in DOMAIN updates
        THEN [communities[i] EXCEPT !.allowedUsers = updates[i]]
        ELSE communities[i]]

\* a self check that never fires
IsSelfNever(sid, id) == FALSE

\* if (targetUserId === req.session.userId)
IsSelf(sid, id) == id = sessions[sid].userId

\* PUT /api/users/:id/role
PutRoleBegin(s, sid, id) ==
    /\ variant = "firestore"
    /\ Receive(s,
                 IF AdminGuard(sid) # 0
                 THEN Done("putRole", sid, AdminGuard(sid))
                 ELSE IF IsSelf(sid, id)
                 THEN Done("putRole", sid, 403) @@ [id |-> id]
                 ELSE [pc |-> "getUser", kind |-> "putRole", sid |-> sid, id |-> id])

\* const newRole = userData.role === 'admin' ? 'user' : 'admin';
ToggledRole(role) == IF role = "admin" THEN "user" ELSE "admin"

\* const userDoc = await userRef.get(); 404 / 403 for a superuser
PutRoleGetUser(s) ==
    /\ req[s].pc = "getUser" /\ req[s].kind = "putRole"
    /\ req' = [req EXCEPT ![s] =
                 IF req[s].id \notin DOMAIN users
                 THEN Done("putRole", req[s].sid, 404)
                 ELSE IF users[req[s].id].role = "superuser"
                 THEN Done("putRole", req[s].sid, 403) @@ [id |-> req[s].id]
                 ELSE [pc |-> "updateRole", kind |-> "putRole", sid |-> req[s].sid,
                       id |-> req[s].id, username |-> users[req[s].id].username,
                       newRole |-> ToggledRole(users[req[s].id].role)]]
    /\ UNCHANGED <<variant, users, communities, accessLogs, lastAccessTimes, dataFile,
                   accessLogsFile, sessions, sweep, clock, nextId, started, accepted>>

\* await userRef.update({ role: newRole });
PutRoleUpdateRole(s) ==
    /\ req[s].pc = "updateRole" /\ req[s].kind = "putRole"
    /\ IF req[s].id \in DOMAIN users
       THEN /\ users' = [users EXCEPT ![req[s].id].role = req[s].newRole]
            /\ req' = [req EXCEPT ![s] =
                         IF req[s].newRole = "admin"
                         THEN [req[s] EXCEPT !.pc = "getComms"]
                         ELSE Done("putRole", req[s].sid, 200) @@
                              [id |-> req[s].id, username |-> req[s].username,
                               newRole |-> req[s].newRole]]
       ELSE /\ users' = users
            /\ req' = [req EXCEPT ![s] = Done("putRole", req[s].sid, 500)]
    /\ UNCHANGED <<variant, communities, accessLogs, lastAccessTimes, dataFile,
                   accessLogsFile, sessions, sweep, clock, nextId, started, accepted>>

\* const communitiesSnapshot = await db.collection('communities').get(); forEach ...
PutRoleGetComms(s) ==
    /\ req[s].pc = "getComms" /\ req[s].kind = "putRole"
    /\ req' = [req EXCEPT ![s] = [req[s] EXCEPT !.pc = "commit"] @@
                                 [updates |-> PurgeUpdates(req[s].username)]]
    /\ UNCHANGED <<variant, users, communities, accessLogs, lastAccessTimes, dataFile,
                   accessLogsFile, sessions, sweep, clock, nextId, started, accepted>>

\* await batch.commit();
PutRoleCommit(s) ==
    /\ req[s].pc = "commit" /\ req[s].kind = "putRole"
    /\ IF BatchApplies(req[s].updates)
       THEN /\ communities' = ApplyUpdates(req[s].updates)
            /\ req' = [req EXCEPT ![s] =
                         Done("putRole", req[s].sid, 200) @@
                         [id |-> req[s].id, username |-> req[s].username,
                          newRole |-> req[s].newRole]]
       ELSE /\ communities' = communities
            /\ req' = [req EXCEPT ![s] = Done("putRole", req[s].sid, 500)]
    /\ UNCHANGED <<variant, users, accessLogs, lastAccessTimes, dataFile,
                   accessLogsFile, sessions, sweep, clock, nextId, started, accepted>>

\* DELETE /api/users/:id
DeleteUserBegin(s, sid, id) ==
    /\ variant = "firestore"
    /\ Receive(s,
                 IF AdminGuard(sid) # 0
                 THEN Done("deleteUser", sid, AdminGuard(sid))
                 ELSE [pc |-> "getUser", kind |-> "deleteUser", sid |-> sid, id |-> id])

\* const userDoc = await userRef.get(); 404 / 403 for a superuser
DeleteUserGetUser(s) ==
    /\ req[s].pc = "getUser" /\ req[s].kind = "deleteUser"
    /\ req' = [req EXCEPT ![s] =
                 IF req[s].id \notin DOMAIN users
                 THEN Done("deleteUser", req[s].sid, 404)
                 ELSE IF users[req[s].id].role = "superuser"
                 THEN Done("deleteUser", req[s].sid, 403) @@ [id |-> req[s].id]
                 ELSE [pc |-> "getComms", kind |-> "deleteUser", sid |-> req[s].sid,
                       id |-> req[s].id, username |-> users[req[s].id].username]]
    /\ UNCHANGED <<variant, users, communities, accessLogs, lastAccessTimes, dataFile,
                   accessLogsFile, sessions, sweep, clock, nextId, started, accepted>>

\* const communitiesSnapshot = await db.collection('communities').get(); forEach ...
DeleteUserGetComms(s) ==
    /\ req[s].pc = "getComms" /\ req[s].kind = "deleteUser"
    /\ req' = [req EXCEPT ![s] = [req[s] EXCEPT !.pc = "commit"] @@
                                 [updates |-> PurgeUpdates(req[s].username)]]
    /\ UNCHANGED <<variant, users, communities, accessLogs, lastAccessTimes, dataFile,
                   accessLogsFile, sessions, sweep, clock, nextId, started, accepted>>

\* batch.delete(userRef); await batch.commit();
\* res.json({ ..., updatedCommunities: the snapshot's communities that listed the name })
DeleteUserCommit(s) ==
    /\ req[s].pc = "commit" /\ req[s].kind = "deleteUser"
    /\ IF BatchApplies(req[s].updates)
       THEN /\ communities' = ApplyUpdates(req[s].updates)
            /\ users' = Without(users, {req[s].id})
            /\ req' = [req EXCEPT ![s] =
                         Done("deleteUser", req[s].sid, 200) @@
                         [id |-> req[s].id, username |-> req[s].username,
                          updatedCommunities |-> DOMAIN req[s].updates]]
       ELSE /\ communities' = communities
            /\ users' = users
            /\ req' = [req EXCEPT ![s] = Done("deleteUser", req[s].sid, 500)]
    /\ UNCHANGED <<variant, accessLogs, lastAccessTimes, dataFile,
                   accessLogsFile, sessions, sweep, clock, nextId, started, accepted>>

(***************************************************************************)
(* Creating users and changing passwords  (server.js)                      *)
(***************************************************************************)
\* bcrypt.hash(password, 10), as far as bcrypt.compare can tell
hash(p) == <<"bcrypt", p>>

\* usersRef.where('username', '==', username.toLowerCase()).get(): not empty
UsernameTaken(username) ==
    \E i \in DOMAIN users : users[i].username = toLowerCase(username)

\* POST /api/register
RegisterBegin(s, sid, username, password) ==
    /\ variant = "firestore"
    /\ Receive(s,
                 IF AdminGuard(sid) # 0
                 THEN Done("register", sid, AdminGuard(sid))
                 ELSE [pc |-> "regCheck", kind |-> "register", sid |-> sid,
                       username |-> username, password |-> password])

\* const existingUser = await usersRef.where(...).get(); if (!existingUser.empty) 400
RegisterCheck(s) ==
    /\ req[s].pc = "regCheck" /\ req[s].kind = "register"
    /\ req' = [req EXCEPT ![s] =
                 IF UsernameTaken(req[s].username)
                 THEN Done("register", req[s].sid, 400)
                 ELSE [req[s] EXCEPT !.pc = "regHash"]]
    /\ UNCHANGED <<variant, users, communities, accessLogs, lastAccessTimes, dataFile,
                   accessLogsFile, sessions, sweep, clock, nextId, started, accepted>>

\* const hashedPassword = await bcrypt.hash(password, 10);
\* newUser = { id: Date.now().toString(), username, password, role: 'user' }
RegisterHash(s) ==
    /\ req[s].pc = "regHash" /\ req[s].kind = "register"
    /\ req' = [req EXCEPT ![s] =
                 [pc |-> "regSet", kind |-> "register", sid |-> req[s].sid,
                  id |-> clock,
                  newUser |-> [username |-> req[s].username,
                               password |-> hash(req[s].password), role |-> "user"]]]
    /\ UNCHANGED <<variant, users, communities, accessLogs, lastAccessTimes, dataFile,
                   accessLogsFile, sessions, sweep, clock, nextId, started, accepted>>

\* await usersRef.doc(newUser.id).set(newUser);
RegisterSet(s) ==
    /\ req[s].pc = "regSet" /\ req[s].kind = "register"
    /\ users' = WithDoc(users, req[s].id, req[s].newUser)
    /\ req' = [req EXCEPT ![s] = Done("register", req[s].sid, 201) @@ [id |-> req[s].id]]
    /\ UNCHANGED <<variant, communities, accessLogs, lastAccessTimes, dataFile,
                   accessLogsFile, sessions, sweep, clock, nextId, started, accepted>>

\* POST /api/users.  With no username in the body, username.toLowerCase()
\* throws a TypeError before the first await; the catch block hands it to
\* errorHandler, which answers 500.
PostUserBegin(s, sid, username, password) ==
    /\ variant = "firestore"
    /\ Receive(s,
                 IF AdminGuard(sid) # 0
                 THEN Done("postUser", sid, AdminGuard(sid))
                 ELSE IF username = undefined
                 THEN Done("postUser", sid, 500)
                 ELSE [pc |-> "userCheck", kind |-> "postUser", sid |-> sid,
                       username |-> username, password |-> password])

\* const existingUser = await db.collection('users').where(...).get();
PostUserCheck(s) ==
    /\ req[s].pc = "userCheck" /\ req[s].kind = "postUser"
    /\ req' = [req EXCEPT ![s] =
                 IF UsernameTaken(req[s].username)
                 THEN Done("postUser", req[s].sid, 400)
                 ELSE [req[s] EXCEPT !.pc = "userAdd"]]
    /\ UNCHANGED <<variant, users, communities, accessLogs, lastAccessTimes, dataFile,
                   accessLogsFile, sessions, sweep, clock, nextId, started, accepted>>

\* newUser = { username: username.toLowerCase(), password, role: 'user', ... }
\* const docRef = await db.collection('users').add(newUser);
PostUserAdd(s) ==
    /\ req[s].pc = "userAdd" /\ req[s].kind = "postUser"
    /\ nextId' = nextId + 1
    /\ users' = WithDoc(users, AutoId(nextId),
                        [username |-> toLowerCase(req[s].username),
                         password |-> hash(req[s].password), role |-> "user"])
    /\ req' = [req EXCEPT ![s] = Done("postUser", req[s].sid, 201) @@
                                 [id |-> AutoId(nextId)]]
    /\ UNCHANGED <<variant, communities, accessLogs, lastAccessTimes, dataFile,
                   accessLogsFile, sessions, sweep, clock, started, accepted>>

\* readData('users'): the documents of the collection, or, when the read
\* fails, `{ users: [] }` from the catch block
readData(coll, readOk) == IF readOk THEN Docs(coll) ELSE <<>>

\* writeData, the commit: batch.delete of every document the write's own
\* get() found, then batch.set(doc(item.id), item) for every item, in order
RECURSIVE SetAll(_, _)
SetAll(coll, items) ==
    IF items = <<>> THEN coll
    ELSE SetAll(WithDoc(coll, Head(items).id,
                        [f \in DOMAIN Head(items) \ {"id"} |-> Head(items)[f]]),
                Tail(items))

writeData(coll, existing, items) == SetAll(Without(coll, existing), items)

\* POST /api/admin/add-user: requireAuth, then req.session.userRole !== 'admin' -> 403
AddUserBegin(s, sid, username, password) ==
    /\ variant = "firestore"
    /\ Receive(s,
                 IF AuthGuard(sid) # 0
                 THEN Done("addUser", sid, AuthGuard(sid))
                 ELSE IF sessions[sid].userRole # "admin"
                 THEN Done("addUser", sid, 403)
                 ELSE [pc |-> "auRead", kind |-> "addUser", sid |-> sid,
                       username |-> username, password |-> password])

\* let users = await readData('users'); if (users.users.find(u => u.username === username)) 400
AddUserRead(s, readOk) ==
    /\ req[s].pc = "auRead" /\ req[s].kind = "addUser"
    /\ LET list == readData(users, readOk)
       IN req' = [req EXCEPT ![s] =
                    IF \E k \in DOMAIN list : list[k].username = req[s].username
                    THEN Done("addUser", req[s].sid, 400)
                    ELSE [req[s] EXCEPT !.pc = "auHash"] @@ [data |-> list]]
    /\ UNCHANGED <<variant, users, communities, accessLogs, lastAccessTimes, dataFile,
                   accessLogsFile, sessions, sweep, clock, nextId, started, accepted>>

\* const hashedPassword = await bcrypt.hash(password, 10);
\* newUser = { id: Date.now().toString(), username, password }  -- no role
\* users.users.push(newUser); writeData('users', users) starts
AddUserHash(s) ==
    /\ req[s].pc = "auHash" /\ req[s].kind = "addUser"
    /\ req' = [req EXCEPT ![s] =
                 [pc |-> "auWriteGet", kind |-> "addUser", sid |-> req[s].sid,
                  data |-> Append(req[s].data,
                                  [id |-> clock, username |-> req[s].username,
                                   password |-> hash(req[s].password),
                                   role |-> "undefined"])]]
    /\ UNCHANGED <<variant, users, communities, accessLogs, lastAccessTimes, dataFile,
                   accessLogsFile, sessions, sweep, clock, nextId, started, accepted>>

\* writeData: const existingDocs = await collections[collection].get();
AddUserWriteGet(s) ==
    /\ req[s].pc = "auWriteGet" /\ req[s].kind = "addUser"
    /\ req' = [req EXCEPT ![s] = [req[s] EXCEPT !.pc = "auCommit"] @@
                                 [existing |-> DOMAIN users]]
    /\ UNCHANGED <<variant, users, communities, accessLogs, lastAccessTimes, dataFile,
                   accessLogsFile, sessions, sweep, clock, nextId, started, accepted>>

\* writeData: await batch.commit();  then res.status(201)
AddUserCommit(s) ==
    /\ req[s].pc = "auCommit" /\ req[s].kind = "addUser"
    /\ users' = writeData(users, req[s].existing, req[s].data)
    /\ req' = [req EXCEPT ![s] = Done("addUser", req[s].sid, 201)]
    /\ UNCHANGED <<variant, communities, accessLogs, lastAccessTimes, dataFile,
                   accessLogsFile, sessions, sweep, clock, nextId, started, accepted>>

\* POST /api/change-password
ChangePasswordBegin(s, sid, currentPassword, newPassword) ==
    /\ variant = "firestore"
    /\ Receive(s,
                 IF AuthGuard(sid) # 0
                 THEN Done("changePassword", sid, AuthGuard(sid))
                 ELSE [pc |-> "cpRead", kind |-> "changePassword", sid |-> sid,
                       currentPassword |-> currentPassword,
                       newPassword |-> newPassword])

\* const users = await readData('users');
\* const user = users.users.find(u => u.id === req.session.userId);
\* if (!user || !(await bcrypt.compare(currentPassword, user.password))) 401
ChangePasswordRead(s, readOk) ==
    /\ req[s].pc = "cpRead" /\ req[s].kind = "changePassword"
    /\ LET list == readData(users, readOk)
           mine == {k \in DOMAIN list : list[k].id = sessions[req[s].sid].userId}
       IN req' = [req EXCEPT ![s] =
                    IF \/ mine = {}
                       \/ list[Min(mine)].password # hash(req[s].currentPassword)
                    THEN Done("changePassword", req[s].sid, 401)
                    ELSE [pc |-> "cpWriteGet", kind |-> "changePassword",
                          sid |-> req[s].sid,
                          data |-> [list EXCEPT ![Min(mine)].password =
                                                   hash(req[s].newPassword)]]]
    /\ UNCHANGED <<variant, users, communities, accessLogs, lastAccessTimes, dataFile,
                   accessLogsFile, sessions, sweep, clock, nextId, started, accepted>>

\* writeData: const existingDocs = await collections[collection].get();
ChangePasswordWriteGet(s) ==
    /\ req[s].pc = "cpWriteGet" /\ req[s].kind = "changePassword"
    /\ req' = [req EXCEPT ![s] = [req[s] EXCEPT !.pc = "cpCommit"] @@
                                 [existing |-> DOMAIN users]]
    /\ UNCHANGED <<variant, users, communities, accessLogs, lastAccessTimes, dataFile,
                   accessLogsFile, sessions, sweep, clock, nextId, started, accepted>>

\* writeData: await batch.commit();  then res.json(...)
ChangePasswordCommit(s) ==
    /\ req[s].pc = "cpCommit" /\ req[s].kind = "changePassword"
    /\ users' = writeData(users, req[s].existing, req[s].data)
    /\ req' = [req EXCEPT ![s] = Done("changePassword", req[s].sid, 200)]
    /\ UNCHANGED <<variant, communities, accessLogs, lastAccessTimes, dataFile,
                   accessLogsFile, sessions, sweep, clock, nextId, started, accepted>>

(***************************************************************************)
(* POST /api/login  (server.js)                                            *)
(***************************************************************************)
LoginBegin(s, sid, username, password) ==
    /\ variant = "firestore"
    /\ Receive(s, [pc |-> "loginFind", kind |-> "login", sid |-> sid,
                   username |-> username, password |-> password])

\* const snapshot = await usersRef.where('username', '==', username.toLowerCase()).get();
\* if (snapshot.empty) 401;  const userDoc = snapshot.docs[0];
LoginFind(s) ==
    /\ req[s].pc = "loginFind" /\ req[s].kind = "login"
    /\ LET found == {i \in DOMAIN users : users[i].username = toLowerCase(req[s].username)}
       IN req' = [req EXCEPT ![s] =
                    IF found = {}
                    THEN Done("login", req[s].sid, 401)
                    ELSE [pc |-> "loginCompare", kind |-> "login", sid |-> req[s].sid,
                          password |-> req[s].password,
                          userId |-> Min(found), userData |-> users[Min(found)]]]
    /\ UNCHANGED <<variant, users, communities, accessLogs, lastAccessTimes, dataFile,
                   accessLogsFile, sessions, sweep, clock, nextId, started, accepted>>

\* const isValidPassword = await bcrypt.compare(password, userData.password);
\* if (!isValidPassword) 401;  req.session.userId / username / userRole = ...; save
LoginCompare(s) ==
    /\ req[s].pc = "loginCompare" /\ req[s].kind = "login"
    /\ IF req[s].userData.password # hash(req[s].password)
       THEN /\ req' = [req EXCEPT ![s] = Done("login", req[s].sid, 401)]
            /\ UNCHANGED sessions
       ELSE /\ sessions' = [sessions EXCEPT ![req[s].sid] =
                              [userId |-> req[s].userId,
                               username |-> req[s].userData.username,
                               userRole |-> req[s].userData.role]]
            /\ req' = [req EXCEPT ![s] = Done("login", req[s].sid, 200)]
    /\ UNCHANGED <<variant, users, communities, accessLogs, lastAccessTimes, dataFile,
                   accessLogsFile, sweep, clock, nextId, started, accepted>>

(***************************************************************************)
(* POST /api/log-access  (server.js)                                       *)
(***************************************************************************)
\* const lastAccessKey = `${community}-${player}`;
lastAccessKey(community, player) == community \o "-" \o player

\* lastAccessTimes[lastAccessKey] || 0
lastAccessTime(key) == IF key \in DOMAIN lastAccessTimes THEN lastAccessTimes[key] ELSE 0

\* no session is needed; `at` records when the request arrived
LogAccessBegin(s, community, player) ==
    /\ variant = "firestore"
    /\ Receive(s, [pc |-> "laLookup", kind |-> "logAccess", sid |-> "anon",
                   community |-> community, player |-> player, at |-> clock])

\* const communityRef = await db.collection('communities').where('name', '==', community).get();
\* if (communityRef.empty) 404;  currentTime = Date.now();
\* if (currentTime - lastAccessTime < 5000) 429;  lastAccessTimes[lastAccessKey] = currentTime;
LogAccessLookup(s) ==
    /\ req[s].pc = "laLookup" /\ req[s].kind = "logAccess"
    /\ LET community == req[s].community
           player == req[s].player
           key == lastAccessKey(community, player)
           empty == \A i \in DOMAIN communities : communities[i].name # community
       IN IF empty
          THEN /\ req' = [req EXCEPT ![s] = Done("logAccess", "anon", 404) @@
                                            [community |-> community, player |-> player]]
               /\ UNCHANGED <<lastAccessTimes, accepted>>
          ELSE IF clock - lastAccessTime(key) < DebounceMs
          THEN /\ req' = [req EXCEPT ![s] = Done("logAccess", "anon", 429) @@
                                            [community |-> community, player |-> player]]
               /\ UNCHANGED <<lastAccessTimes, accepted>>
          ELSE /\ req' = [req EXCEPT ![s] = [req[s] EXCEPT !.pc = "laAdd"]]
               /\ lastAccessTimes' = (key :> clock) @@ lastAccessTimes
               /\ accepted' = (<<community, player>> :> clock) @@ accepted
    /\ UNCHANGED <<variant, users, communities, accessLogs, dataFile,
                   accessLogsFile, sessions, sweep, clock, nextId, started>>

\* await db.collection('access_logs').add({ community, player, action, timestamp });
LogAccessAdd(s) ==
    /\ req[s].pc = "laAdd" /\ req[s].kind = "logAccess"
    /\ nextId' = nextId + 1
    /\ accessLogs' = WithDoc(accessLogs, AutoId(nextId),
                             [community |-> req[s].community, player |-> req[s].player,
                              timestamp |-> clock])
    /\ req' = [req EXCEPT ![s] = Done("logAccess", "anon", 200) @@
                                 [community |-> req[s].community, player |-> req[s].player]]
    /\ UNCHANGED <<variant, users, communities, lastAccessTimes, dataFile,
                   accessLogsFile, sessions, sweep, clock, started, accepted>>

\* part_001: the same route over access_logs.json and data.json
FileLogAccessBegin(s, community, player) ==
    /\ variant = "file"
    /\ Receive(s, [pc |-> "flaLogs", kind |-> "fileLogAccess", sid |-> "anon",
                   community |-> community, player |-> player, at |-> clock])

\* let logs = await readData(accessLogsFile);
FileLogAccessReadLogs(s) ==
    /\ req[s].pc = "flaLogs" /\ req[s].kind = "fileLogAccess"
    /\ req' = [req EXCEPT ![s] = [req[s] EXCEPT !.pc = "flaData"] @@
                                 [logs |-> accessLogsFile]]
    /\ UNCHANGED <<variant, users, communities, accessLogs, lastAccessTimes, dataFile,
                   accessLogsFile, sessions, sweep, clock, nextId, started, accepted>>

\* communityLog.logs.push({ player, action, timestamp }), creating the
\* community's entry when logs.communities has none
PushLog(logs, community, entry) ==
    LET found == {k \in DOMAIN logs : logs[k].name = community}
    IN IF found = {}
       THEN Append(logs, [name |-> community, logs |-> <<entry>>])
       ELSE [logs EXCEPT ![Min(found)].logs = Append(@, entry)]

\* let jsonData = await readData(dataFile); 404 when no community has the
\* name; 429 inside the window; lastAccessTimes[lastAccessKey] = currentTime; push
FileLogAccessReadData(s) ==
    /\ req[s].pc = "flaData" /\ req[s].kind = "fileLogAccess"
    /\ LET community == req[s].community
           player == req[s].player
           key == lastAccessKey(community, player)
           communityExists == \E k \in DOMAIN dataFile : dataFile[k].name = community
       IN IF ~communityExists
          THEN /\ req' = [req EXCEPT ![s] = Done("fileLogAccess", "anon", 404)]
               /\ UNCHANGED <<lastAccessTimes, accepted>>
          ELSE IF clock - lastAccessTime(key) < DebounceMs
          THEN /\ req' = [req EXCEPT ![s] = Done("fileLogAccess", "anon", 429)]
               /\ UNCHANGED <<lastAccessTimes, accepted>>
          ELSE /\ req' = [req EXCEPT ![s] =
                            [pc |-> "flaWrite", kind |-> "fileLogAccess", sid |-> "anon",
                             logs |-> PushLog(req[s].logs, community,
                                              [player |-> player, timestamp |-> clock])]]
               /\ lastAccessTimes' = (key :> clock) @@ lastAccessTimes
               /\ accepted' = (<<community, player>> :> clock) @@ accepted
    /\ UNCHANGED <<variant, users, communities, accessLogs, dataFile,
                   accessLogsFile, sessions, sweep, clock, nextId, started>>

\* await writeData(accessLogsFile, logs); res.status(200)
FileLogAccessWrite(s) ==
    /\ req[s].pc = "flaWrite" /\ req[s].kind = "fileLogAccess"
    /\ accessLogsFile' = req[s].logs
    /\ req' = [req EXCEPT ![s] = Done("fileLogAccess", "anon", 200)]
    /\ UNCHANGED <<variant, users, communities, accessLogs, lastAccessTimes, dataFile,
                   sessions, sweep, clock, nextId, started, accepted>>

(***************************************************************************)
(* GET /api/communities/:name/logs                                         *)
(***************************************************************************)
\* .limit(100)
LogLimit == 100

\* the first n elements
Take(seq, n) == SubSeq(seq, 1, Min({n, Len(seq)}))

\* .orderBy('timestamp', 'desc'): newest first, ties by document id
RECURSIVE OrderByTimestampDesc(_)
OrderByTimestampDesc(ids) ==
    IF ids = {} THEN <<>>
    ELSE LET first == CHOOSE i \in ids : \A j \in ids :
                         \/ accessLogs[i].timestamp > accessLogs[j].timestamp
                         \/ accessLogs[i].timestamp = accessLogs[j].timestamp /\ i >= j
         IN <<[id |-> first] @@ accessLogs[first]>> \o OrderByTimestampDesc(ids \ {first})

GetLogsBegin(s, sid, name) ==
    /\ variant = "firestore"
    /\ Receive(s,
                 IF AuthGuard(sid) # 0
                 THEN Done("getLogs", sid, AuthGuard(sid))
                 ELSE [pc |-> "logsGet", kind |-> "getLogs", sid |-> sid, name |-> name])

\* const logsSnapshot = await ...where(...).orderBy('timestamp', 'desc').limit(100).get();
GetLogsRespond(s) ==
    /\ req[s].pc = "logsGet" /\ req[s].kind = "getLogs"
    /\ req' = [req EXCEPT ![s] =
                 Done("getLogs", req[s].sid, 200) @@
                 [name |-> req[s].name,
                  body |-> Take(OrderByTimestampDesc(LogsOf(req[s].name)), LogLimit)]]
    /\ UNCHANGED <<variant, users, communities, accessLogs, lastAccessTimes, dataFile,
                   accessLogsFile, sessions, sweep, clock, nextId, started, accepted>>

\* part_001
FileGetLogsBegin(s, sid, name) ==
    /\ variant = "file"
    /\ Receive(s,
                 IF AuthGuard(sid) # 0
                 THEN Done("fileGetLogs", sid, AuthGuard(sid))
                 ELSE [pc |-> "fglRead", kind |-> "fileGetLogs", sid |-> sid, name |-> name])

\* const logs = await readData(accessLogsFile);
\* const communityLog = logs.communities.find(c => c.name === communityName);
\* res.json(communityLog.logs) or 404
FileGetLogsRespond(s) ==
    /\ req[s].pc = "fglRead" /\ req[s].kind = "fileGetLogs"
    /\ LET found == {k \in DOMAIN accessLogsFile : accessLogsFile[k].name = req[s].name}
       IN req' = [req EXCEPT ![s] =
                    IF found = {}
                    THEN Done("fileGetLogs", req[s].sid, 404)
                    ELSE Done("fileGetLogs", req[s].sid, 200) @@
                         [name |-> req[s].name, body |-> accessLogsFile[Min(found)].logs]]
    /\ UNCHANGED <<variant, users, communities, accessLogs, lastAccessTimes, dataFile,
                   accessLogsFile, sessions, sweep, clock, nextId, started, accepted>>

(***************************************************************************)
(* Access codes and the sweep  (server.js)                                 *)
(***************************************************************************)
\* the value of an Invalid Date
NaN == -1

\* new Date(code.expiresAt).getTime() for the expiresAt texts that are posted
newDate(text) ==
    CASE text = "T-1" -> StartTime - 1
      [] text = "T+0" -> StartTime
      [] text = "T+1" -> StartTime + 1
      [] text = "T+2" -> StartTime + 2
      [] OTHER -> NaN

\* a sweep that also drops nothing that expires exactly now
ExpiresLaterOrNow(code, now) ==
    newDate(code.expiresAt) # NaN /\ newDate(code.expiresAt) >= now

\* new Date(code.expiresAt) > now   (false for an Invalid Date)
ExpiresLater(code, now) ==
    newDate(code.expiresAt) # NaN /\ newDate(code.expiresAt) > now

\* community.addresses.find(a => a.id === addressId), as an index
FindAddress(addresses, addressId) ==
    LET matches == {k \in DOMAIN addresses : addresses[k].id = addressId}
    IN IF matches = {} THEN 0 ELSE Min(matches)

\* address.codes.push(newCode)
PushCode(addresses, addressId, newCode) ==
    [addresses EXCEPT ![FindAddress(addresses, addressId)].codes = Append(@, newCode)]

\* POST /api/communities/:communityId/addresses/:addressId/codes
PostCodeBegin(s, sid, communityId, addressId, expiresAt) ==
    /\ variant = "firestore"
    /\ Receive(s,
                 IF AuthGuard(sid) # 0
                 THEN Done("postCode", sid, AuthGuard(sid))
                 ELSE [pc |-> "pcGet", kind |-> "postCode", sid |-> sid,
                       communityId |-> communityId, addressId |-> addressId,
                       expiresAt |-> expiresAt])

\* const communityDoc = await communityRef.get(); 404 without the document
\* or the address; newCode = { id: Date.now().toString(), ..., expiresAt }
PostCodeGet(s) ==
    /\ req[s].pc = "pcGet" /\ req[s].kind = "postCode"
    /\ req' = [req EXCEPT ![s] =
                 IF req[s].communityId \notin DOMAIN communities
                 THEN Done("postCode", req[s].sid, 404)
                 ELSE IF FindAddress(communities[req[s].communityId].addresses,
                                     req[s].addressId) = 0
                 THEN Done("postCode", req[s].sid, 404)
                 ELSE [pc |-> "pcUpdate", kind |-> "postCode", sid |-> req[s].sid,
                       communityId |-> req[s].communityId,
                       addresses |-> PushCode(communities[req[s].communityId].addresses,
                                              req[s].addressId,
                                              [id |-> clock, expiresAt |-> req[s].expiresAt])]]
    /\ UNCHANGED <<variant, users, communities, accessLogs, lastAccessTimes, dataFile,
                   accessLogsFile, sessions, sweep, clock, nextId, started, accepted>>

\* await communityRef.update({ addresses: communityData.addresses }); 201
PostCodeUpdate(s) ==
    /\ req[s].pc = "pcUpdate" /\ req[s].kind = "postCode"
    /\ IF req[s].communityId \in DOMAIN communities
       THEN /\ communities' = [communities EXCEPT
                                 ![req[s].communityId].addresses = req[s].addresses]
            /\ req' = [req EXCEPT ![s] = Done("postCode", req[s].sid, 201)]
       ELSE /\ req' = [req EXCEPT ![s] = Done("postCode", req[s].sid, 500)]
            /\ UNCHANGED communities
    /\ UNCHANGED <<variant, users, accessLogs, lastAccessTimes, dataFile,
                   accessLogsFile, sessions, sweep, clock, nextId, started, accepted>>

\* part_001: the same route over the data file
FilePostCodeBegin(s, sid, communityId, addressId, expiresAt) ==
    /\ variant = "file"
    /\ Receive(s,
                 IF AuthGuard(sid) # 0
                 THEN Done("filePostCode", sid, AuthGuard(sid))
                 ELSE [pc |-> "fcRead", kind |-> "filePostCode", sid |-> sid,
                       communityId |-> communityId, addressId |-> addressId,
                       expiresAt |-> expiresAt])

\* let jsonData = await readData(dataFile); find community, find address, push
FilePostCodeRead(s) ==
    /\ req[s].pc = "fcRead" /\ req[s].kind = "filePostCode"
    /\ LET found == {k \in DOMAIN dataFile : dataFile[k].id = req[s].communityId}
       IN req' = [req EXCEPT ![s] =
                    IF found = {}
                    THEN Done("filePostCode", req[s].sid, 404)
                    ELSE IF FindAddress(dataFile[Min(found)].addresses, req[s].addressId) = 0
                    THEN Done("filePostCode", req[s].sid, 404)
                    ELSE [pc |-> "fcWrite", kind |-> "filePostCode", sid |-> req[s].sid,
                          jsonData |->
                             [dataFile EXCEPT ![Min(found)].addresses =
                                 PushCode(@, req[s].addressId,
                                          [id |-> clock, expiresAt |-> req[s].expiresAt])]]]
    /\ UNCHANGED <<variant, users, communities, accessLogs, lastAccessTimes, dataFile,
                   accessLogsFile, sessions, sweep, clock, nextId, started, accepted>>

\* await writeData(dataFile, jsonData); res.status(201).json(newCode)
FilePostCodeWrite(s) ==
    /\ req[s].pc = "fcWrite" /\ req[s].kind = "filePostCode"
    /\ dataFile' = req[s].jsonData
    /\ req' = [req EXCEPT ![s] = Done("filePostCode", req[s].sid, 201)]
    /\ UNCHANGED <<variant, users, communities, accessLogs, lastAccessTimes,
                   accessLogsFile, sessions, sweep, clock, nextId, started, accepted>>

\* a sweep whose filter keeps every code
FilterCodesNone(list, now) == list

\* address.codes = address.codes.filter(code => new Date(code.expiresAt) > now)
\* for every address of every community
FilterCodes(list, now) ==
    [k \in DOMAIN list |->
        [list[k] EXCEPT !.addresses =
            [a \in DOMAIN list[k].addresses |->
                [list[k].addresses[a] EXCEPT !.codes =
                    SelectSeq(list[k].addresses[a].codes,
                              LAMBDA code : ExpiresLater(code, now))]]]]

\* setInterval(removeExpiredCodes, 60000) fires
SweepStart ==
    /\ sweep.pc = "idle"
    /\ started < MaxReqs
    /\ started' = started + 1
    /\ sweep' = [pc |-> "read"]
    /\ UNCHANGED <<variant, users, communities, accessLogs, lastAccessTimes, dataFile,
                   accessLogsFile, sessions, req, clock, nextId, accepted>>

\* setInterval(removeExpiredCodes, 60000) fires, as it does for as long as the
\* process runs: the timer is not one of the requests that MaxReqs bounds
SweepTimer ==
    /\ sweep.pc = "idle"
    /\ sweep' = [pc |-> "read"]
    /\ UNCHANGED <<variant, users, communities, accessLogs, lastAccessTimes, dataFile,
                   accessLogsFile, sessions, req, clock, nextId, started, accepted>>

\* let jsonData = await readData(...); const now = new Date(); filter;
\* if (codesRemoved) writeData starts.  A failed read is an empty list on
\* server.js and an exception that ends the sweep on part_001.
SweepRead(readOk) ==
    /\ sweep.pc = "read"
    /\ LET jsonData == IF variant = "firestore" THEN readData(communities, readOk)
                       ELSE IF readOk THEN dataFile ELSE <<>>
           filtered == FilterCodes(jsonData, clock)
           codesRemoved == filtered # jsonData
       IN sweep' = IF ~codesRemoved THEN [pc |-> "idle"]
                   ELSE [pc |-> IF variant = "firestore" THEN "wGet" ELSE "fWrite",
                         now |-> clock, data |-> filtered]
    /\ UNCHANGED <<variant, users, communities, accessLogs, lastAccessTimes, dataFile,
                   accessLogsFile, sessions, req, clock, nextId, started, accepted>>

\* writeData: const existingDocs = await collections[collection].get();
SweepWriteGet ==
    /\ sweep.pc = "wGet"
    /\ sweep' = [sweep EXCEPT !.pc = "commit"] @@ [existing |-> DOMAIN communities]
    /\ UNCHANGED <<variant, users, communities, accessLogs, lastAccessTimes, dataFile,
                   accessLogsFile, sessions, req, clock, nextId, started, accepted>>

\* writeData: await batch.commit(); console.log('Expired codes removed')
SweepCommit ==
    /\ sweep.pc = "commit"
    /\ communities' = writeData(communities, sweep.existing, sweep.data)
    /\ sweep' = [pc |-> "idle", log |-> "Expired codes removed", now |-> sweep.now]
    /\ UNCHANGED <<variant, users, accessLogs, lastAccessTimes, dataFile,
                   accessLogsFile, sessions, req, clock, nextId, started, accepted>>

\* part_001: await writeData(dataFile, jsonData); console.log(...)
FileSweepWrite ==
    /\ sweep.pc = "fWrite"
    /\ dataFile' = sweep.data
    /\ sweep' = [pc |-> "idle", log |-> "Expired codes removed", now |-> sweep.now]
    /\ UNCHANGED <<variant, users, communities, accessLogs, lastAccessTimes,
                   accessLogsFile, sessions, req, clock, nextId, started, accepted>>

(***************************************************************************)
(* The clock.  Date.now() advances between steps; the model advances it by *)
(* one millisecond or by one millisecond less than the debounce window, so *)
(* that both sides of every time comparison of the code are reached.       *)
(***************************************************************************)
\* number of advances made so far (each advance is 1 or DebounceMs - 1)
Ticks == ((clock - StartTime) % (DebounceMs - 1)) + ((clock - StartTime) \div (DebounceMs - 1))

Tick(d) ==
    /\ Ticks < MaxTicks
    /\ clock' = clock + d
    /\ UNCHANGED <<variant, users, communities, accessLogs, lastAccessTimes, dataFile,
                   accessLogsFile, sessions, req, sweep, nextId, started, accepted>>

(***************************************************************************)
(* part_001: the file-based server.  readData parses the whole file,       *)
(* writeData overwrites the whole file.                                    *)
(***************************************************************************)
\* part_001 requireAdmin: req.session.userRole === 'admin'
requireAdminFile(sid) ==
    /\ sessions[sid].userId # NoUser
    /\ sessions[sid].userRole = "admin"

AdminGuardFile(sid) ==
    IF ~requireAuth(sid) THEN 401
    ELSE IF ~requireAdminFile(sid) THEN 403
    ELSE 0

\* POST /api/communities, part_001 lines 200-225: the handler registered first.
\* Express runs the first matching handler; it answers without calling next(),
\* so the duplicate at lines 301-312 never runs.
FilePostCommunityBegin(s, sid, name, allowedUsers) ==
    /\ variant = "file"
    /\ Receive(s,
                 IF AdminGuardFile(sid) # 0
                 THEN Done("filePostCommunity", sid, AdminGuardFile(sid))
                 ELSE [pc |-> "fRead", kind |-> "filePostCommunity", sid |-> sid,
                       name |-> name, allowedUsers |-> allowedUsers])

\* if (jsonData.communities.length >= 9)
FileCapReached(n) == n >= MaxCommunitiesFile

\* const jsonData = await readData(dataFile); ... jsonData.communities.push(newCommunity)
FilePostCommunityRead(s) ==
    /\ req[s].pc = "fRead" /\ req[s].kind = "filePostCommunity"
    /\ req' = [req EXCEPT ![s] =
                 IF FileCapReached(Len(dataFile))
                 THEN Done("filePostCommunity", req[s].sid, 400) @@ [name |-> req[s].name]
                 ELSE [pc |-> "fWrite", kind |-> "filePostCommunity", sid |-> req[s].sid,
                       name |-> req[s].name,
                       jsonData |-> Append(dataFile,
                                      [id |-> clock, name |-> req[s].name,
                                       addresses |-> <<>>,
                                       allowedUsers |-> req[s].allowedUsers])]]
    /\ UNCHANGED <<variant, users, communities, accessLogs, lastAccessTimes, dataFile,
                   accessLogsFile, sessions, sweep, clock, nextId, started, accepted>>

\* await writeData(dataFile, jsonData);
FilePostCommunityWrite(s) ==
    /\ req[s].pc = "fWrite" /\ req[s].kind = "filePostCommunity"
    /\ dataFile' = req[s].jsonData
    /\ req' = [req EXCEPT ![s] = [pc |-> "fLogsRead", kind |-> "filePostCommunity",
                                  sid |-> req[s].sid, name |-> req[s].name]]
    /\ UNCHANGED <<variant, users, communities, accessLogs, lastAccessTimes,
                   accessLogsFile, sessions, sweep, clock, nextId, started, accepted>>

\* addCommunityToAccessLogs: let logs = await readData(accessLogsFile);
\* if (!logs.communities.some(c => c.name === communityName)) push and write
FilePostCommunityLogsRead(s) ==
    /\ req[s].pc = "fLogsRead" /\ req[s].kind = "filePostCommunity"
    /\ req' = [req EXCEPT ![s] =
                 IF \E i \in DOMAIN accessLogsFile : accessLogsFile[i].name = req[s].name
                 THEN Done("filePostCommunity", req[s].sid, 201) @@ [name |-> req[s].name]
                 ELSE [pc |-> "fLogsWrite", kind |-> "filePostCommunity",
                       sid |-> req[s].sid, name |-> req[s].name,
                       logs |-> Append(accessLogsFile,
                                       [name |-> req[s].name, logs |-> <<>>])]]
    /\ UNCHANGED <<variant, users, communities, accessLogs, lastAccessTimes, dataFile,
                   accessLogsFile, sessions, sweep, clock, nextId, started, accepted>>

\* await writeData(accessLogsFile, logs); res.status(201).json(newCommunity)
FilePostCommunityLogsWrite(s) ==
    /\ req[s].pc = "fLogsWrite" /\ req[s].kind = "filePostCommunity"
    /\ accessLogsFile' = req[s].logs
    /\ req' = [req EXCEPT ![s] =
                 Done("filePostCommunity", req[s].sid, 201) @@ [name |-> req[s].name]]
    /\ UNCHANGED <<variant, users, communities, accessLogs, lastAccessTimes, dataFile,
                   sessions, sweep, clock, nextId, started, accepted>>

\* DELETE /api/communities/:id, part_001 lines 228-243 (the handler registered first)
FileDeleteCommunityBegin(s, sid, id) ==
    /\ variant = "file"
    /\ Receive(s,
                 IF AdminGuardFile(sid) # 0
                 THEN Done("fileDeleteCommunity", sid, AdminGuardFile(sid))
                 ELSE [pc |-> "fdRead", kind |-> "fileDeleteCommunity", sid |-> sid,
                       id |-> id])

\* let jsonData = await readData(dataFile); find; filter
FileDeleteCommunityRead(s) ==
    /\ req[s].pc = "fdRead" /\ req[s].kind = "fileDeleteCommunity"
    /\ req' = [req EXCEPT ![s] =
                 IF \E i \in DOMAIN dataFile : dataFile[i].id = req[s].id
                 THEN [pc |-> "fdWrite", kind |-> "fileDeleteCommunity", sid |-> req[s].sid,
                       name |-> (LET i == Min({j \in DOMAIN dataFile :
                                                 dataFile[j].id = req[s].id})
                                 IN dataFile[i].name),
                       jsonData |-> SelectSeq(dataFile, LAMBDA c : c.id # req[s].id)]
                 ELSE Done("fileDeleteCommunity", req[s].sid, 404)]
    /\ UNCHANGED <<variant, users, communities, accessLogs, lastAccessTimes, dataFile,
                   accessLogsFile, sessions, sweep, clock, nextId, started, accepted>>

\* await writeData(dataFile, jsonData);
FileDeleteCommunityWrite(s) ==
    /\ req[s].pc = "fdWrite" /\ req[s].kind = "fileDeleteCommunity"
    /\ dataFile' = req[s].jsonData
    /\ req' = [req EXCEPT ![s] = [pc |-> "fdLogsRead", kind |-> "fileDeleteCommunity",
                                  sid |-> req[s].sid, name |-> req[s].name]]
    /\ UNCHANGED <<variant, users, communities, accessLogs, lastAccessTimes,
                   accessLogsFile, sessions, sweep, clock, nextId, started, accepted>>

\* removeCommunityFromAccessLogs: read, filter(c => c.name !== communityName)
FileDeleteCommunityLogsRead(s) ==
    /\ req[s].pc = "fdLogsRead" /\ req[s].kind = "fileDeleteCommunity"
    /\ req' = [req EXCEPT ![s] =
                 [pc |-> "fdLogsWrite", kind |-> "fileDeleteCommunity",
                  sid |-> req[s].sid, name |-> req[s].name,
                  logs |-> SelectSeq(accessLogsFile, LAMBDA c : c.name # req[s].name)]]
    /\ UNCHANGED <<variant, users, communities, accessLogs, lastAccessTimes, dataFile,
                   accessLogsFile, sessions, sweep, clock, nextId, started, accepted>>

\* await writeData(accessLogsFile, logs); res.sendStatus(204)
FileDeleteCommunityLogsWrite(s) ==
    /\ req[s].pc = "fdLogsWrite" /\ req[s].kind = "fileDeleteCommunity"
    /\ accessLogsFile' = req[s].logs
    /\ req' = [req EXCEPT ![s] =
                 Done("fileDeleteCommunity", req[s].sid, 204) @@ [name |-> req[s].name]]
    /\ UNCHANGED <<variant, users, communities, accessLogs, lastAccessTimes, dataFile,
                   sessions, sweep, clock, nextId, started, accepted>>

(***************************************************************************)
(* Initial states.  The database is seeded with a superuser, an admin and  *)
(* a regular user, each with a session opened by an earlier login, and a   *)
(* session that never logged in.                                           *)
(***************************************************************************)
SeedUsers ==
    (1 :> [username |-> "root", password |-> hash("pw"), role |-> "superuser"]) @@
    (2 :> [username |-> "adm", password |-> hash("pw"), role |-> "admin"]) @@
    (3 :> [username |-> "bob", password |-> hash("pw"), role |-> "user"])

SeedSessions ==
    [sid \in {"sr", "sa", "su", "anon"} |->
        CASE sid = "sr" -> [userId |-> 1, username |-> "root", userRole |-> "superuser"]
          [] sid = "sa" -> [userId |-> 2, username |-> "adm", userRole |-> "admin"]
          [] sid = "su" -> [userId |-> 3, username |-> "bob", userRole |-> "user"]
          [] OTHER -> [userId |-> NoUser, username |-> "", userRole |-> ""]]

SeedCommunity == [name |-> "Oak", addresses |-> <<>>, allowedUsers |-> <<>>]

InitCommon ==
    /\ users = SeedUsers
    /\ sessions = SeedSessions
    /\ accessLogs = <<>>
    /\ lastAccessTimes = <<>>
    /\ req = [s \in Slots |-> Idle]
    /\ sweep = [pc |-> "idle"]
    /\ clock = StartTime
    /\ nextId = 0
    /\ started = 0
    /\ accepted = <<>>

(***************************************************************************)
(* SpecCap: creating and deleting communities around the cap, with two     *)
(* requests in flight, on either server.  The store starts two below the   *)
(* cap.                                                                    *)
(***************************************************************************)
InitCap ==
    /\ InitCommon
    /\ variant \in {"firestore", "file"}
    /\ communities = IF variant = "firestore"
                     THEN [i \in 1..(MaxCommunities - 2) |-> SeedCommunity]
                     ELSE <<>>
    /\ dataFile = IF variant = "file"
                  THEN [i \in 1..(MaxCommunitiesFile - 2) |-> [id |-> i] @@ SeedCommunity]
                  ELSE <<>>
    /\ accessLogsFile = IF variant = "file" THEN <<[name |-> "Oak", logs |-> <<>>]>> ELSE <<>>

CapSessions == {"sa", "su"}

NextCap ==
    \/ \E s \in Slots, sid \in CapSessions : PostCommunityBegin(s, sid, "Elm", <<>>)
    \/ \E s \in Slots : PostCommunityCount(s)
    \/ \E s \in Slots : PostCommunityAdd(s)
    \/ \E s \in Slots : PostCommunityReadback(s)
    \/ \E s \in Slots, sid \in CapSessions, id \in {1, AutoId(0)} :
          DeleteCommunityBegin(s, sid, id)
    \/ \E s \in Slots : DeleteCommunityGetDoc(s)
    \/ \E s \in Slots : DeleteCommunityGetLogs(s)
    \/ \E s \in Slots : DeleteCommunityCommit(s)
    \/ \E s \in Slots, sid \in CapSessions : FilePostCommunityBegin(s, sid, "Elm", <<>>)
    \/ \E s \in Slots : FilePostCommunityRead(s)
    \/ \E s \in Slots : FilePostCommunityWrite(s)
    \/ \E s \in Slots : FilePostCommunityLogsRead(s)
    \/ \E s \in Slots : FilePostCommunityLogsWrite(s)
    \/ \E s \in Slots, sid \in CapSessions, id \in {1, StartTime} :
          FileDeleteCommunityBegin(s, sid, id)
    \/ \E s \in Slots : FileDeleteCommunityRead(s)
    \/ \E s \in Slots : FileDeleteCommunityWrite(s)
    \/ \E s \in Slots : FileDeleteCommunityLogsRead(s)
    \/ \E s \in Slots : FileDeleteCommunityLogsWrite(s)
    \/ Tick(1)

SpecCap == InitCap /\ [][NextCap]_vars

\* C2: the number of stored communities never exceeds the cap (8 on the
\* document-database server, 9 on the file-based server), whatever the
\* interleaving of requests.
C2_CapNeverExceeded ==
    /\ Cardinality(DOMAIN communities) <= MaxCommunities
    /\ Len(dataFile) <= MaxCommunitiesFile

\* C1: a POST /api/communities that passed the admin check and finds the
\* store at the cap (8 documents on the document-database server, 9 records
\* on the file-based server) is answered 400, and the step leaves the stored
\* communities as they were; being answered, the request takes no further step.
C1_CreateAtCapRejected ==
    [][\A s \in Slots :
          /\ ( /\ req[s].pc = "count"
               /\ Cardinality(DOMAIN communities) >= 8
               /\ req'[s] # req[s] )
             => ( /\ req'[s].pc = "done"
                  /\ req'[s].status = 400
                  /\ communities' = communities )
          /\ ( /\ req[s].pc = "fRead"
               /\ Len(dataFile) >= 9
               /\ req'[s] # req[s] )
             => ( /\ req'[s].pc = "done"
                  /\ req'[s].status = 400
                  /\ dataFile' = dataFile )
      ]_vars

\* C1 witness: on the document-database server a create was answered 400
\* while the store holds 8 communities.
C1_Witness ==
    \E s \in Slots :
        /\ req[s].pc = "done"
        /\ req[s].kind = "postCommunity"
        /\ req[s].status = 400
        /\ Cardinality(DOMAIN communities) = MaxCommunities

\* the same on the file-based server, with 9 records in data.json
C1_WitnessFile ==
    \E s \in Slots :
        /\ req[s].pc = "done"
        /\ req[s].kind = "filePostCommunity"
        /\ req[s].status = 400
        /\ Len(dataFile) = MaxCommunitiesFile

(***************************************************************************)
(* SpecSeq: requests issued one after another on the document-database     *)
(* server: each request is answered before the next one arrives.           *)
(***************************************************************************)
Quiet == \A s \in Slots : Free(s)

InitSeq ==
    /\ InitCommon
    /\ variant = "firestore"
    /\ communities = (1 :> [name |-> "Oak", addresses |-> <<>>, allowedUsers |-> <<"bob">>])
    /\ dataFile = <<>>
    /\ accessLogsFile = <<>>

NextSeq ==
    \/ /\ Quiet
       /\ \/ \E body \in {<<>>, <<"bob">>} : PostCommunityBegin("r1", "sa", "Elm", body)
          \/ \E sid \in {"sa", "su", "sr", "anon"} : GetCommunities("r1", sid)
          \/ \E sid \in {"sa", "sr"}, id \in {2, 3} : PutRoleBegin("r1", sid, id)
          \/ PutAllowedUsersBegin("r1", "sa", 1, <<"bob">>)
          \/ \E id \in {1, 3} : DeleteUserBegin("r1", "sa", id)
    \/ DeleteUserGetUser("r1")
    \/ DeleteUserGetComms("r1")
    \/ DeleteUserCommit("r1")
    \/ PostCommunityCount("r1")
    \/ PostCommunityAdd("r1")
    \/ PostCommunityReadback("r1")
    \/ GetCommunitiesRespond("r1")
    \/ PutRoleGetUser("r1")
    \/ PutRoleUpdateRole("r1")
    \/ PutRoleGetComms("r1")
    \/ PutRoleCommit("r1")
    \/ PutAllowedUsersGetDoc("r1")
    \/ PutAllowedUsersGetUsers("r1")
    \/ PutAllowedUsersUpdate("r1")

SpecSeq == InitSeq /\ [][NextSeq]_vars

\* C7: when a role toggle that made a user an admin is answered 200, the
\* username is in no community's allowedUsers; and no step of a toggle that
\* makes an admin a user again changes any community, so the name is not
\* put back.
C7_PromotePurgesDemoteKeeps ==
    [][\A s \in Slots :
          /\ ( /\ InFlight(s) /\ req[s].kind = "putRole"
               /\ req'[s].pc = "done" /\ req'[s].status = 200
               /\ req'[s].newRole = "admin" )
             => \A c \in DOMAIN communities' :
                   \A k \in DOMAIN communities'[c].allowedUsers :
                      communities'[c].allowedUsers[k] # req'[s].username
          /\ ( /\ InFlight(s) /\ req[s].kind = "putRole"
               /\ req'[s].pc = "done" /\ req'[s].status = 200
               /\ req'[s].newRole = "user" )
             => communities' = communities
      ]_vars

\* C7 witness: bob, on Oak's allow-list at the start, was made admin and then
\* user again; the toggle back was answered 200 and Oak's list is still empty.
C7_Witness ==
    \E s \in Slots :
        /\ req[s].pc = "done" /\ req[s].kind = "putRole" /\ req[s].status = 200
        /\ req[s].newRole = "user" /\ req[s].username = "bob"
        /\ users[3].role = "user"
        /\ 1 \in DOMAIN communities /\ communities[1].allowedUsers = <<>>

\* C9: an admin's POST /api/communities below the cap is answered 201 with
\* the generated id and, when the body held only a name, addresses [] and
\* allowedUsers []; and GET /api/communities answers a session with exactly
\* the communities for which its role is admin or superuser or its username
\* is on the allow-list.
C9_CreateThenList ==
    [][\A s \in Slots :
          /\ ( /\ req[s].pc = "count" /\ req'[s] # req[s]
               /\ Cardinality(DOMAIN communities) < 8 )
             => req'[s].pc = "add"
          /\ ( req[s].pc = "readback" /\ req'[s] # req[s] )
             => ( /\ req'[s].pc = "done" /\ req'[s].status = 201
                  /\ req'[s].body.id = req[s].id
                  /\ req[s].id \in DOMAIN communities
                  /\ req[s].allowedUsers = <<>>
                     => ( /\ req'[s].body.addresses = <<>>
                          /\ req'[s].body.allowedUsers = <<>>
                          /\ req'[s].body.name = req[s].name ) )
          /\ ( req[s].pc = "get" /\ req'[s] # req[s] )
             => ( /\ req'[s].pc = "done" /\ req'[s].status = 200
                  /\ req'[s].body =
                       {c \in DOMAIN communities :
                          \/ sessions[req[s].sid].userRole \in {"admin", "superuser"}
                          \/ \E k \in DOMAIN communities[c].allowedUsers :
                                communities[c].allowedUsers[k] =
                                   sessions[req[s].sid].username} )
      ]_vars

\* C9 witness: Elm was created with only a name, and a GET by the regular
\* user bob, who is not on its allow-list, was answered without it.
C9_Witness ==
    \E s \in Slots :
        /\ req[s].pc = "done" /\ req[s].kind = "getCommunities" /\ req[s].status = 200
        /\ req[s].sid = "su"
        /\ AutoId(0) \in DOMAIN communities
        /\ communities[AutoId(0)].allowedUsers = <<>>
        /\ AutoId(0) \notin req[s].body

\* C11: a PUT /api/users/:id/role whose :id is the userId of the requesting
\* session is answered 403, and no user and no community is changed.
C11_SelfToggleRefused ==
    [][\A s \in Slots :
          ( /\ Free(s) /\ req'[s] # req[s]
            /\ req'[s].kind = "putRole" /\ "id" \in DOMAIN req'[s]
            /\ req'[s].id = sessions[req'[s].sid].userId )
          => /\ req'[s].pc = "done" /\ req'[s].status = 403
             /\ users' = users
             /\ communities' = communities
      ]_vars

\* the admin has asked to toggle the admin's own role and got 403
C11_Witness ==
    /\ req["r1"].pc = "done" /\ req["r1"].kind = "putRole"
    /\ req["r1"].status = 403 /\ "id" \in DOMAIN req["r1"]
    /\ req["r1"].id = sessions[req["r1"].sid].userId
    /\ users[req["r1"].id].role = "admin"

\* C19: when DELETE /api/users/:id is answered 200 the user record is gone and
\* the username is in no community's allowedUsers, both from the same step
\* (the batch commit); no other step of the handler changes a user or a
\* community, so the deletion and the allow-list updates are applied together
\* or not at all.
C19_DeleteUserCascade ==
    [][\A s \in Slots :
          (InFlight(s) /\ req[s].kind = "deleteUser")
          => IF req'[s].pc = "done" /\ req'[s].status = 200
             THEN /\ req[s].id \in DOMAIN users
                  /\ users[req[s].id].role # "superuser"
                  /\ req[s].id \notin DOMAIN users'
                  /\ \A c \in DOMAIN communities' :
                        ~Includes(communities'[c].allowedUsers, req[s].username)
             ELSE users' = users /\ communities' = communities
      ]_vars

\* C19 witness: bob, on the allow-lists of two communities, was deleted; the
\* request was answered 200 naming both communities and neither lists bob.
C19_Witness ==
    \E s \in Slots :
        /\ req[s].pc = "done" /\ req[s].kind = "deleteUser" /\ req[s].status = 200
        /\ req[s].username = "bob"
        /\ Cardinality(req[s].updatedCommunities) = 2
        /\ 3 \notin DOMAIN users
        /\ \A c \in DOMAIN communities : ~Includes(communities[c].allowedUsers, "bob")

(***************************************************************************)
(* SpecAdmin: account and allow-list administration on the                 *)
(* document-database server, requests issued one after another.            *)
(***************************************************************************)
\* the credentials that are tried: { username, password } = req.body
LoginInputs == {<<"Amy", "pw">>, <<"BOB", "pw">>, <<"bob", "bad">>, <<"ghost", "pw">>}

NextAdmin ==
    \/ /\ Quiet
       /\ \/ PostCommunityBegin("r1", "sa", "Elm", <<"ghost">>)
          \/ RegisterBegin("r1", "sa", "Amy", "pw")
          \/ \E u \in {"AMY", undefined} : PostUserBegin("r1", "sa", u, "pw")
          \/ \E body \in {<<"bob", "adm", "ghost">>, <<"AMY">>} :
                PutAllowedUsersBegin("r1", "sa", 1, body)
          \/ \E sid \in {"sa", "sr"} : AddUserBegin("r1", sid, "zed", "pw")
          \/ \E sid \in {"sr", "su"}, cur \in {"pw", "bad"} :
                ChangePasswordBegin("r1", sid, cur, "new")
          \/ \E id \in {1, 3} : DeleteUserBegin("r1", "sa", id)
          \/ \E id \in {1, 3} : PutRoleBegin("r1", "sa", id)
          \/ \E cred \in LoginInputs : LoginBegin("r1", "anon", cred[1], cred[2])
    \/ LoginFind("r1")
    \/ LoginCompare("r1")
    \/ PostCommunityCount("r1")
    \/ PostCommunityAdd("r1")
    \/ PostCommunityReadback("r1")
    \/ RegisterCheck("r1")
    \/ RegisterHash("r1")
    \/ RegisterSet("r1")
    \/ PostUserCheck("r1")
    \/ PostUserAdd("r1")
    \/ PutAllowedUsersGetDoc("r1")
    \/ PutAllowedUsersGetUsers("r1")
    \/ PutAllowedUsersUpdate("r1")
    \/ \E readOk \in BOOLEAN : AddUserRead("r1", readOk)
    \/ AddUserHash("r1")
    \/ AddUserWriteGet("r1")
    \/ AddUserCommit("r1")
    \/ \E readOk \in BOOLEAN : ChangePasswordRead("r1", readOk)
    \/ ChangePasswordWriteGet("r1")
    \/ ChangePasswordCommit("r1")
    \/ DeleteUserGetUser("r1")
    \/ DeleteUserGetComms("r1")
    \/ DeleteUserCommit("r1")
    \/ PutRoleGetUser("r1")
    \/ PutRoleUpdateRole("r1")
    \/ PutRoleGetComms("r1")
    \/ PutRoleCommit("r1")
    \/ Tick(1)

SpecAdmin == InitSeq /\ [][NextAdmin]_vars

\* C3: every name on a community's allowedUsers is the username of a stored
\* user whose role is neither admin nor superuser.
C3_AllowedUsersAreRegularUsers ==
    \A c \in DOMAIN communities :
        \A k \in DOMAIN communities[c].allowedUsers :
            \E i \in DOMAIN users :
                /\ users[i].username = communities[c].allowedUsers[k]
                /\ users[i].role \notin {"admin", "superuser"}

\* C8: when PUT /api/communities/:id/allowed-users is answered 200, the
\* stored allowedUsers holds, without duplicates, exactly the stored usernames
\* that match a requested name case-insensitively and belong to a user who is
\* neither admin nor superuser, and every other requested name is reported as
\* not added.
C8_AllowListReplaced ==
    [][\A s \in Slots :
          ( /\ req[s].pc = "update" /\ req[s].kind = "putAllowedUsers"
            /\ req'[s].pc = "done" /\ req'[s].status = 200 )
          => LET asked == {toLowerCase(req[s].allowedUsers[k]) :
                              k \in DOMAIN req[s].allowedUsers}
                 regular == {i \in DOMAIN users :
                               /\ toLowerCase(users[i].username) \in asked
                               /\ users[i].role \notin {"admin", "superuser"}}
                 stored == communities'[req[s].id].allowedUsers
             IN /\ Range(stored) = {users[i].username : i \in regular}
                /\ Cardinality(Range(stored)) = Len(stored)
                /\ Range(req'[s].invalidUsers) =
                      {n \in asked : \A i \in regular : toLowerCase(users[i].username) # n}
      ]_vars

\* C10: no step removes a user whose role is superuser or changes that
\* user's role, and DELETE /api/users/:id and PUT /api/users/:id/role aimed
\* at a superuser are answered 403.
C10_SuperuserStays ==
    [][/\ \A i \in DOMAIN users :
             users[i].role = "superuser"
             => ( i \in DOMAIN users' /\ users'[i].role = "superuser" )
       /\ \A s \in Slots :
             ( /\ req[s].pc = "getUser" /\ req'[s] # req[s]
               /\ req[s].id \in DOMAIN users
               /\ users[req[s].id].role = "superuser" )
             => ( req'[s].pc = "done" /\ req'[s].status = 403 )
      ]_vars

(***************************************************************************)
(* SpecLog: access logging and community deletion on the                   *)
(* document-database server, two requests in flight.                       *)
(***************************************************************************)
InitLog ==
    /\ InitCommon
    /\ variant = "firestore"
    /\ communities = (1 :> [name |-> "a-b", addresses |-> <<>>, allowedUsers |-> <<>>]) @@
                     (2 :> [name |-> "a", addresses |-> <<>>, allowedUsers |-> <<>>])
    /\ dataFile = <<>>
    /\ accessLogsFile = <<>>

\* the (community, player) pairs that are posted
LogPairs == {<<"a-b", "c">>, <<"a", "b-c">>, <<"a", "c">>, <<"zz", "c">>}

NextLog ==
    \/ \E s \in Slots, cp \in LogPairs : LogAccessBegin(s, cp[1], cp[2])
    \/ \E s \in Slots : LogAccessLookup(s)
    \/ \E s \in Slots : LogAccessAdd(s)
    \/ \E s \in Slots, id \in {1, 2} : DeleteCommunityBegin(s, "sa", id)
    \/ \E s \in Slots : DeleteCommunityGetDoc(s)
    \/ \E s \in Slots : DeleteCommunityGetLogs(s)
    \/ \E s \in Slots : DeleteCommunityCommit(s)
    \/ \E d \in {1, DebounceMs - 1} : Tick(d)

SpecLog == InitLog /\ [][NextLog]_vars

\* C4: when DELETE /api/communities/:id is answered 200 for a community
\* named N, no access-log entry whose community field is N is left in the
\* store, also when log-access requests for N are in flight.
C4_NoLogsAfterDelete ==
    [][\A s \in Slots :
          ( /\ req[s].pc = "commit" /\ req[s].kind = "deleteCommunity"
            /\ req'[s].pc = "done" /\ req'[s].status = 200 )
          => \A l \in DOMAIN accessLogs' : accessLogs'[l].community # req[s].name
      ]_vars

\* C6: of two log-access requests for the same (community, player) on an
\* existing community, the first accepted at time t, the second is rejected
\* with 429 and appends nothing when its check runs less than 5000 ms after
\* t, and is accepted, appending exactly one entry with a 200, when it
\* arrived 5000 ms or more after t.  A rejected attempt does not move t.
C6_DebounceWindow ==
    [][\A s \in Slots :
          LET pair == <<req[s].community, req[s].player>>
          IN /\ ( /\ req[s].pc = "laLookup" /\ req'[s] # req[s]
                  /\ \E i \in DOMAIN communities : communities[i].name = req[s].community
                  /\ pair \in DOMAIN accepted )
                => /\ clock - accepted[pair] < DebounceMs
                      => /\ req'[s].pc = "done" /\ req'[s].status = 429
                         /\ accessLogs' = accessLogs
                         /\ accepted' = accepted
                   /\ req[s].at - accepted[pair] >= DebounceMs
                      => /\ req'[s].pc = "laAdd"
                         /\ accepted'[pair] = clock
             /\ ( req[s].pc = "laAdd" /\ req'[s] # req[s] )
                => /\ req'[s].pc = "done" /\ req'[s].status = 200
                   /\ Cardinality(DOMAIN accessLogs') = Cardinality(DOMAIN accessLogs) + 1
      ]_vars

(***************************************************************************)
(* SpecSweep: access codes are added and the sweep runs, one operation at  *)
(* a time, on either server.                                               *)
(***************************************************************************)
SeedAddresses(base) == <<[id |-> base + 1, codes |-> <<>>], [id |-> base + 2, codes |-> <<>>]>>

InitSweep ==
    /\ InitCommon
    /\ variant \in {"firestore", "file"}
    /\ communities = IF variant = "firestore"
                     THEN [i \in 1..2 |-> [SeedCommunity EXCEPT !.addresses = SeedAddresses(10 * i)]]
                     ELSE <<>>
    /\ dataFile = IF variant = "file"
                  THEN [i \in 1..2 |-> [id |-> i] @@
                                        [SeedCommunity EXCEPT !.addresses = SeedAddresses(10 * i)]]
                  ELSE <<>>
    /\ accessLogsFile = <<>>

\* the stored communities of either server, as a list of records with ids
Stored == IF variant = "firestore" THEN Docs(communities) ELSE dataFile

ExpiryInputs == {"T-1", "T+2", "soon"}
CodeTargets == {<<1, 11>>, <<2, 22>>, <<1, 99>>, <<9, 11>>}

NextSweep ==
    \/ /\ Quiet /\ sweep.pc = "idle"
       /\ \/ \E tg \in CodeTargets, e \in ExpiryInputs :
                \/ PostCodeBegin("r1", "su", tg[1], tg[2], e)
                \/ FilePostCodeBegin("r1", "su", tg[1], tg[2], e)
          \/ SweepStart
    \/ PostCodeGet("r1")
    \/ PostCodeUpdate("r1")
    \/ FilePostCodeRead("r1")
    \/ FilePostCodeWrite("r1")
    \/ \E readOk \in BOOLEAN : SweepRead(readOk)
    \/ SweepWriteGet
    \/ SweepCommit
    \/ FileSweepWrite
    \/ Tick(1)

SpecSweep == InitSweep /\ [][NextSweep]_vars

\* C5: a sweep that has read the store at time now leaves the store alone
\* when no code has an expiresAt that is not strictly later than now, and
\* otherwise its write removes from every address exactly those codes and
\* keeps, in order, every code whose expiresAt is strictly later than now.
C5_SweepRemovesExpired ==
    [][LET later(code, now) ==
               newDate(code.expiresAt) # NaN /\ newDate(code.expiresAt) > now
           keptCodes(codes, now) == SelectSeq(codes, LAMBDA code : later(code, now))
           keptAddrs(addrs, now) ==
               [a \in DOMAIN addrs |-> [addrs[a] EXCEPT !.codes = keptCodes(@, now)]]
           kept(list, now) ==
               [k \in DOMAIN list |-> [list[k] EXCEPT !.addresses = keptAddrs(@, now)]]
       IN /\ ( SweepRead(TRUE) /\ sweep'.pc = "idle" )
             => ( Stored' = Stored /\ kept(Stored, clock) = Stored )
          /\ ( sweep.pc \in {"commit", "fWrite"} /\ sweep'.pc = "idle" )
             => Stored' = kept(Stored, sweep.now)
      ]_vars

\* a sweep has removed something while a code added before it, with an
\* expiresAt later than the sweep's now, is still stored (server.js)
C5_Witness ==
    /\ variant = "firestore"
    /\ sweep.pc = "idle" /\ "log" \in DOMAIN sweep
    /\ \E i \in DOMAIN communities : \E a \in DOMAIN communities[i].addresses :
          \E c \in DOMAIN communities[i].addresses[a].codes :
             LET code == communities[i].addresses[a].codes[c]
             IN code.id < sweep.now /\ newDate(code.expiresAt) > sweep.now

\* the same on the file-based server
C5_WitnessFile ==
    /\ variant = "file"
    /\ sweep.pc = "idle" /\ "log" \in DOMAIN sweep
    /\ \E k \in DOMAIN dataFile : \E a \in DOMAIN dataFile[k].addresses :
          \E c \in DOMAIN dataFile[k].addresses[a].codes :
             LET code == dataFile[k].addresses[a].codes[c]
             IN code.id < sweep.now /\ newDate(code.expiresAt) > sweep.now

\* C12: no two stored users have usernames that are equal when compared
\* case-insensitively.
C12_UsernamesUniqueIgnoringCase ==
    \A i, j \in DOMAIN users :
        toLowerCase(users[i].username) = toLowerCase(users[j].username) => i = j

\* C13: a login whose username matches a stored user case-insensitively and
\* whose password is that user's is answered 200 and puts that user's id,
\* username and role in the session; any other login is answered 401 and
\* leaves the session as it was.
C13_LoginMatchesStoredUser ==
    [][/\ \A s \in Slots :
          ( /\ req[s].pc = "loginFind" /\ req[s].kind = "login"
            /\ req'[s] # req[s] )
          => LET good == {i \in DOMAIN users :
                             /\ toLowerCase(users[i].username) = toLowerCase(req[s].username)
                             /\ users[i].password = hash(req[s].password)}
             IN IF good = {}
                THEN req'[s].pc = "loginCompare"
                     \/ ( req'[s].pc = "done" /\ req'[s].status = 401 /\ sessions' = sessions )
                ELSE req'[s].pc = "loginCompare" /\ req'[s].userId \in good
       /\ \A s \in Slots :
          ( /\ req[s].pc = "loginCompare" /\ req[s].kind = "login"
            /\ req'[s] # req[s] )
          => IF req[s].userData.password = hash(req[s].password)
             THEN /\ req'[s].status = 200
                  /\ sessions'[req[s].sid] =
                        [userId |-> req[s].userId,
                         username |-> req[s].userData.username,
                         userRole |-> req[s].userData.role]
             ELSE req'[s].status = 401 /\ sessions' = sessions
      ]_vars

(***************************************************************************)
(* SpecLogs: access attempts are logged and the logs of a community are    *)
(* read, one request at a time, on either server.                          *)
(***************************************************************************)
InitLogs ==
    /\ InitCommon
    /\ variant \in {"firestore", "file"}
    /\ communities = IF variant = "firestore" THEN (1 :> SeedCommunity) ELSE <<>>
    /\ dataFile = IF variant = "file" THEN <<[id |-> 1] @@ SeedCommunity>> ELSE <<>>
    /\ accessLogsFile = IF variant = "file" THEN <<[name |-> "Oak", logs |-> <<>>]>> ELSE <<>>

NextLogs ==
    \/ /\ Quiet
       /\ \/ \E c \in {"Oak", "zz"}, p \in {"c", "d"} :
                \/ LogAccessBegin("r1", c, p)
                \/ FileLogAccessBegin("r1", c, p)
          \/ \E sid \in {"su", "anon"}, name \in {"Oak", "zz"} :
                \/ GetLogsBegin("r1", sid, name)
                \/ FileGetLogsBegin("r1", sid, name)
    \/ LogAccessLookup("r1")
    \/ LogAccessAdd("r1")
    \/ FileLogAccessReadLogs("r1")
    \/ FileLogAccessReadData("r1")
    \/ FileLogAccessWrite("r1")
    \/ GetLogsRespond("r1")
    \/ FileGetLogsRespond("r1")
    \/ \E d \in {1, DebounceMs - 1} : Tick(d)

SpecLogs == InitLogs /\ [][NextLogs]_vars

\* C14: a 200 answer of GET /api/communities/:name/logs holds only entries
\* of that community, min(100, number stored) of them, newest first, and no
\* stored entry of the community that is left out is newer than one returned.
C14_LogsNewestFirst ==
    [][\A s \in Slots :
          ( /\ req[s].pc \in {"logsGet", "fglRead"}
            /\ req'[s].pc = "done" /\ req'[s].status = 200 )
          => LET body == req'[s].body
                 ordered == \A i, j \in DOMAIN body :
                               i < j => body[i].timestamp >= body[j].timestamp
             IN IF variant = "firestore"
                THEN LET stored == LogsOf(req[s].name)
                         returned == {body[k].id : k \in DOMAIN body}
                     IN /\ returned \subseteq stored
                        /\ Cardinality(returned) = Len(body)
                        /\ Len(body) = Min({LogLimit, Cardinality(stored)})
                        /\ ordered
                        /\ \A l \in stored \ returned : \A k \in DOMAIN body :
                              accessLogs[l].timestamp <= body[k].timestamp
                ELSE LET stored == UNION {Range(accessLogsFile[k].logs) :
                                            k \in {m \in DOMAIN accessLogsFile :
                                                     accessLogsFile[m].name = req[s].name}}
                     IN /\ Range(body) \subseteq stored
                        /\ Len(body) = Min({LogLimit, Cardinality(stored)})
                        /\ ordered
                        /\ \A e \in stored \ Range(body) : \A k \in DOMAIN body :
                              e.timestamp <= body[k].timestamp
      ]_vars

(***************************************************************************)
(* SpecCsrf: requests with and without a valid CSRF token, one at a time,  *)
(* on either server.                                                       *)
(***************************************************************************)
NextCsrf ==
    \/ /\ Quiet
       /\ \E tokenOk \in BOOLEAN :
             \/ Csrf("r1", "anon", "/api/log-access", "POST", tokenOk,
                     \/ LogAccessBegin("r1", "Oak", "c")
                     \/ FileLogAccessBegin("r1", "Oak", "c"))
             \/ Csrf("r1", "sa", "/api/communities", "POST", tokenOk,
                     \/ PostCommunityBegin("r1", "sa", "Elm", <<>>)
                     \/ FilePostCommunityBegin("r1", "sa", "Elm", <<>>))
             \/ Csrf("r1", "su", "/api/communities/Oak/logs", "GET", tokenOk,
                     \/ GetLogsBegin("r1", "su", "Oak")
                     \/ FileGetLogsBegin("r1", "su", "Oak"))
    \/ LogAccessLookup("r1")
    \/ LogAccessAdd("r1")
    \/ FileLogAccessReadLogs("r1")
    \/ FileLogAccessReadData("r1")
    \/ FileLogAccessWrite("r1")
    \/ PostCommunityCount("r1")
    \/ PostCommunityAdd("r1")
    \/ PostCommunityReadback("r1")
    \/ FilePostCommunityRead("r1")
    \/ FilePostCommunityWrite("r1")
    \/ FilePostCommunityLogsRead("r1")
    \/ FilePostCommunityLogsWrite("r1")
    \/ GetLogsRespond("r1")
    \/ FileGetLogsRespond("r1")
    \/ \E d \in {1, DebounceMs - 1} : Tick(d)

SpecCsrf == InitLogs /\ [][NextCsrf]_vars

\* C15: a POST /api/communities without a valid CSRF token is answered by
\* the middleware and changes no stored data, and no POST /api/log-access is
\* answered by the CSRF middleware.
C15_CsrfOnAllButLogAccess ==
    [][/\ ( \/ Csrf("r1", "sa", "/api/communities", "POST", FALSE,
                    PostCommunityBegin("r1", "sa", "Elm", <<>>))
            \/ Csrf("r1", "sa", "/api/communities", "POST", FALSE,
                    FilePostCommunityBegin("r1", "sa", "Elm", <<>>)) )
          => /\ req'["r1"].pc = "done" /\ req'["r1"].kind = "csrf"
             /\ req'["r1"].status = 403
             /\ communities' = communities /\ dataFile' = dataFile
       /\ \A s \in Slots :
             req'[s] # req[s] /\ req'[s].pc = "done" /\ req'[s].kind = "csrf"
             => req'[s].path # "/api/log-access"
      ]_vars

\* C16: a request to a route behind requireAuth from a session without a
\* userId is answered 401; a request to an admin-only route from a logged-in
\* session whose role is neither admin nor superuser is answered 403, and one
\* from an admin or superuser session is let through to the handler (the one
\* refusal a handler itself makes before its first await is the self toggle);
\* a 401 or 403 changes no stored data.
C16_GuardsByRole ==
    [][\A s \in Slots :
          LET kind == req'[s].kind
              sid == req'[s].sid
              adminOnly == {"postCommunity", "deleteCommunity", "register", "postUser",
                            "deleteUser", "putAllowedUsers", "putRole", "addUser"}
              authOnly == {"getCommunities", "changePassword", "postCode", "getLogs"}
              refused == req'[s].pc = "done" /\ req'[s].status \in {401, 403}
          IN ( /\ Free(s) /\ req'[s] # req[s] /\ variant = "firestore"
               /\ kind \in adminOnly \cup authOnly )
             => /\ sessions[sid].userId = NoUser
                   => req'[s].pc = "done" /\ req'[s].status = 401
                /\ ( /\ sessions[sid].userId # NoUser /\ kind \in adminOnly
                     /\ sessions[sid].userRole \notin {"admin", "superuser"} )
                   => req'[s].pc = "done" /\ req'[s].status = 403
                /\ ( /\ sessions[sid].userId # NoUser /\ kind \in adminOnly
                     /\ sessions[sid].userRole \in {"admin", "superuser"} )
                   => ( ~refused \/ (kind = "putRole" /\ "id" \in DOMAIN req'[s]) )
                /\ refused => /\ users' = users /\ communities' = communities
                              /\ accessLogs' = accessLogs
      ]_vars

\* C17: a request whose required body field is missing is answered 400 and
\* persists nothing; here POST /api/users from an admin session with no
\* username in the body.
C17_MissingFieldIs400 ==
    [][\A s \in Slots :
          PostUserBegin(s, "sa", undefined, "pw")
          => /\ req'[s].pc = "done" /\ req'[s].status = 400
             /\ users' = users /\ communities' = communities ]_vars

\* C18: when the read of the users collection fails inside a route handler
\* (add-user, change-password), the request is answered 500 at that point: the
\* handler does not go on as if the collection were empty, answers neither
\* success nor 401, and writes nothing.
C18_FailedReadIs500 ==
    [][\A s \in Slots :
          (AddUserRead(s, FALSE) \/ ChangePasswordRead(s, FALSE))
          => /\ req'[s].pc = "done" /\ req'[s].status = 500
             /\ users' = users ]_vars

\* C20: a request to add an access code to an address of a community, made on
\* the session of a user whose role is user and whose username is not in that
\* community's allowedUsers, is refused and leaves the community unchanged.
C20_OutsidersCannotChange ==
    [][\A s \in Slots :
          ( /\ InFlight(s) /\ req[s].kind = "postCode"
            /\ "communityId" \in DOMAIN req[s]
            /\ req[s].communityId \in DOMAIN communities
            /\ sessions[req[s].sid].userRole = "user"
            /\ ~Includes(communities[req[s].communityId].allowedUsers,
                         sessions[req[s].sid].username) )
          => /\ communities' = communities
             /\ ~(req'[s].pc = "done" /\ req'[s].status \in {200, 201})
      ]_vars

(***************************************************************************)
(* Routing.  app.post / app.delete append a layer to Express's router       *)
(* stack; a request walks the stack in registration order and runs the     *)
(* first layer whose method and path match.  Every handler here answers    *)
(* without calling next(), so no later layer runs for that request.        *)
(***************************************************************************)
\* the registrations of the two routes that are registered twice, in source order
Stack ==
    IF variant = "firestore"
    THEN <<[method |-> "POST", path |-> "/api/communities", line |-> 291],
           [method |-> "DELETE", path |-> "/api/communities/:id", line |-> 329],
           [method |-> "DELETE", path |-> "/api/communities/:id", line |-> 550]>>
    ELSE <<[method |-> "POST", path |-> "/api/communities", line |-> 200],
           [method |-> "DELETE", path |-> "/api/communities/:id", line |-> 228],
           [method |-> "POST", path |-> "/api/communities", line |-> 301],
           [method |-> "DELETE", path |-> "/api/communities/:id", line |-> 315]>>

\* a router that runs the matching layer registered last
routerHandleLast(method, path) ==
    LET match == {i \in DOMAIN Stack : Stack[i].method = method /\ Stack[i].path = path}
    IN Stack[CHOOSE i \in match : \A j \in match : j <= i].line

\* the layer that handles the request: the first match of the stack
routerHandle(method, path) ==
    LET match == {i \in DOMAIN Stack : Stack[i].method = method /\ Stack[i].path = path}
    IN Stack[Min(match)].line

\* server.js 550-557, the duplicate DELETE /api/communities/:id
DeleteCommunityDupBegin(s, sid, id) ==
    /\ variant = "firestore"
    /\ Receive(s,
                 IF AdminGuard(sid) # 0
                 THEN Done("deleteCommunityDup", sid, AdminGuard(sid))
                 ELSE [pc |-> "dupDelete", kind |-> "deleteCommunityDup", sid |-> sid,
                       id |-> id])

\* await db.collection('communities').doc(req.params.id).delete(); res.sendStatus(204)
DeleteCommunityDupDelete(s) ==
    /\ req[s].pc = "dupDelete" /\ req[s].kind = "deleteCommunityDup"
    /\ communities' = Without(communities, {req[s].id})
    /\ req' = [req EXCEPT ![s] = Done("deleteCommunityDup", req[s].sid, 204)]
    /\ UNCHANGED <<variant, users, accessLogs, lastAccessTimes, dataFile,
                   accessLogsFile, sessions, sweep, clock, nextId, started, accepted>>

\* part_001 301-312, the duplicate POST /api/communities: no cap, allowedUsers: []
FilePostCommunityDupBegin(s, sid, name) ==
    /\ variant = "file"
    /\ Receive(s,
                 IF AdminGuardFile(sid) # 0
                 THEN Done("filePostCommunityDup", sid, AdminGuardFile(sid))
                 ELSE [pc |-> "fdupRead", kind |-> "filePostCommunityDup", sid |-> sid,
                       name |-> name])

\* const jsonData = await readData(dataFile); jsonData.communities.push(newCommunity)
FilePostCommunityDupRead(s) ==
    /\ req[s].pc = "fdupRead" /\ req[s].kind = "filePostCommunityDup"
    /\ req' = [req EXCEPT ![s] =
                 [pc |-> "fdupWrite", kind |-> "filePostCommunityDup", sid |-> req[s].sid,
                  name |-> req[s].name,
                  jsonData |-> Append(dataFile,
                                      [id |-> clock, name |-> req[s].name,
                                       addresses |-> <<>>, allowedUsers |-> <<>>])]]
    /\ UNCHANGED <<variant, users, communities, accessLogs, lastAccessTimes, dataFile,
                   accessLogsFile, sessions, sweep, clock, nextId, started, accepted>>

\* await writeData(dataFile, jsonData); res.status(201).json(newCommunity)
FilePostCommunityDupWrite(s) ==
    /\ req[s].pc = "fdupWrite" /\ req[s].kind = "filePostCommunityDup"
    /\ dataFile' = req[s].jsonData
    /\ req' = [req EXCEPT ![s] =
                 Done("filePostCommunityDup", req[s].sid, 201) @@ [name |-> req[s].name]]
    /\ UNCHANGED <<variant, users, communities, accessLogs, lastAccessTimes,
                   accessLogsFile, sessions, sweep, clock, nextId, started, accepted>>

\* part_001 315-324, the duplicate DELETE /api/communities/:id
FileDeleteCommunityDupBegin(s, sid, id) ==
    /\ variant = "file"
    /\ Receive(s,
                 IF AdminGuardFile(sid) # 0
                 THEN Done("fileDeleteCommunityDup", sid, AdminGuardFile(sid))
                 ELSE [pc |-> "fddupRead", kind |-> "fileDeleteCommunityDup", sid |-> sid,
                       id |-> id])

\* let jsonData = await readData(dataFile); filter
FileDeleteCommunityDupRead(s) ==
    /\ req[s].pc = "fddupRead" /\ req[s].kind = "fileDeleteCommunityDup"
    /\ req' = [req EXCEPT ![s] =
                 [pc |-> "fddupWrite", kind |-> "fileDeleteCommunityDup",
                  sid |-> req[s].sid,
                  jsonData |-> SelectSeq(dataFile, LAMBDA c : c.id # req[s].id)]]
    /\ UNCHANGED <<variant, users, communities, accessLogs, lastAccessTimes, dataFile,
                   accessLogsFile, sessions, sweep, clock, nextId, started, accepted>>

\* await writeData(dataFile, jsonData); res.sendStatus(204)
FileDeleteCommunityDupWrite(s) ==
    /\ req[s].pc = "fddupWrite" /\ req[s].kind = "fileDeleteCommunityDup"
    /\ dataFile' = req[s].jsonData
    /\ req' = [req EXCEPT ![s] = Done("fileDeleteCommunityDup", req[s].sid, 204)]
    /\ UNCHANGED <<variant, users, communities, accessLogs, lastAccessTimes,
                   accessLogsFile, sessions, sweep, clock, nextId, started, accepted>>

\* a POST /api/communities request enters the handler the router picks
RoutePostCommunity(s, sid, name, allowedUsers) ==
    IF variant = "firestore"
    THEN PostCommunityBegin(s, sid, name, allowedUsers)
    ELSE IF routerHandle("POST", "/api/communities") = 200
    THEN FilePostCommunityBegin(s, sid, name, allowedUsers)
    ELSE FilePostCommunityDupBegin(s, sid, name)

\* a DELETE /api/communities/:id request enters the handler the router picks
RouteDeleteCommunity(s, sid, id) ==
    IF variant = "firestore"
    THEN IF routerHandle("DELETE", "/api/communities/:id") = 329
         THEN DeleteCommunityBegin(s, sid, id)
         ELSE DeleteCommunityDupBegin(s, sid, id)
    ELSE IF routerHandle("DELETE", "/api/communities/:id") = 228
         THEN FileDeleteCommunityBegin(s, sid, id)
         ELSE FileDeleteCommunityDupBegin(s, sid, id)

\* the handler the router picked goes on past its first and second await
RouteFirstAwait(s) ==
    CASE req[s].pc = "dupDelete" -> DeleteCommunityDupDelete(s)
      [] req[s].pc = "fdupRead" -> FilePostCommunityDupRead(s)
      [] req[s].pc = "fddupRead" -> FileDeleteCommunityDupRead(s)
      [] req[s].pc = "getDoc" -> DeleteCommunityGetDoc(s)
      [] req[s].pc = "fRead" -> FilePostCommunityRead(s)
      [] req[s].pc = "fdRead" -> FileDeleteCommunityRead(s)
      [] OTHER -> FALSE

RouteSecondAwait(s) ==
    CASE req[s].pc = "fdupWrite" -> FilePostCommunityDupWrite(s)
      [] req[s].pc = "fddupWrite" -> FileDeleteCommunityDupWrite(s)
      [] req[s].pc = "fWrite" -> FilePostCommunityWrite(s)
      [] req[s].pc = "fdWrite" -> FileDeleteCommunityWrite(s)
      [] OTHER -> FALSE

(***************************************************************************)
(* SpecRoute: creates and deletes of communities go through the router,    *)
(* two requests in flight, on either server.                               *)
(***************************************************************************)
NextRoute ==
    \/ \E s \in Slots, sid \in {"sa", "su"} : RoutePostCommunity(s, sid, "Elm", <<"bob">>)
    \/ \E s \in Slots, sid \in {"sa", "su"}, id \in {1, 7} : RouteDeleteCommunity(s, sid, id)
    \/ \E s \in Slots : RouteFirstAwait(s)
    \/ \E s \in Slots : RouteSecondAwait(s)
    \/ \E s \in Slots : PostCommunityCount(s)
    \/ \E s \in Slots : PostCommunityAdd(s)
    \/ \E s \in Slots : PostCommunityReadback(s)
    \/ \E s \in Slots : DeleteCommunityGetLogs(s)
    \/ \E s \in Slots : DeleteCommunityCommit(s)
    \/ \E s \in Slots : FilePostCommunityLogsRead(s)
    \/ \E s \in Slots : FilePostCommunityLogsWrite(s)
    \/ \E s \in Slots : FileDeleteCommunityLogsRead(s)
    \/ \E s \in Slots : FileDeleteCommunityLogsWrite(s)
    \/ Tick(1)

SpecRoute == InitLogs /\ [][NextRoute]_vars

FirstRegistered == {"postCommunity", "deleteCommunity", "filePostCommunity",
                    "fileDeleteCommunity"}
RegisteredLater == {"deleteCommunityDup", "filePostCommunityDup", "fileDeleteCommunityDup"}

\* C21, as stated: a request for a route that is registered twice (DELETE
\* /api/communities/:id on both servers, POST /api/communities on the
\* file-based one) is handled by the handler registered last.
C21_LastRegisteredHandles ==
    \A s \in Slots :
        ( /\ InFlight(s)
          /\ req[s].kind \in {"deleteCommunity", "deleteCommunityDup", "filePostCommunity",
                              "filePostCommunityDup", "fileDeleteCommunity",
                              "fileDeleteCommunityDup"} )
        => req[s].kind \in RegisteredLater

\* C21, amended: every request for POST /api/communities or DELETE
\* /api/communities/:id is handled by the handler registered first, and the
\* handler registered later never runs: a delete is never answered 204 on
\* the document-database server, where only the duplicate answers 204.
C21_FirstRegisteredHandles ==
    \A s \in Slots :
        InFlight(s)
        => /\ req[s].kind \in FirstRegistered
           /\ (req[s].kind = "deleteCommunity" /\ req[s].pc = "done")
              => req[s].status \in {200, 401, 403, 404}

\* C21 witness: on the document-database server the delete of an id that no
\* community has was answered 404 by the first handler (the duplicate would
\* have answered 204).
C21_Witness ==
    \E s \in Slots :
        /\ variant = "firestore"
        /\ req[s].pc = "done" /\ req[s].kind = "deleteCommunity" /\ req[s].status = 404

(***************************************************************************)
(* GET /api/communities/:id/addresses                                      *)
(***************************************************************************)
\* server.js 681-693: `readData(dataFile)` names a variable that server.js
\* never declares; evaluating the argument throws a ReferenceError inside the
\* try block, before any await, and the catch answers 500 through errorHandler.
GetAddresses(s, sid, id) ==
    /\ variant = "firestore"
    /\ Receive(s,
                 IF AuthGuard(sid) # 0
                 THEN Done("getAddresses", sid, AuthGuard(sid)) @@ [id |-> id]
                 ELSE Done("getAddresses", sid, 500) @@ [id |-> id])

\* part_001 346-358
FileGetAddressesBegin(s, sid, id) ==
    /\ variant = "file"
    /\ Receive(s,
                 IF AuthGuard(sid) # 0
                 THEN Done("fileGetAddresses", sid, AuthGuard(sid)) @@ [id |-> id]
                 ELSE [pc |-> "gaRead", kind |-> "fileGetAddresses", sid |-> sid, id |-> id])

\* const jsonData = await readData(dataFile); find; res.json(community.addresses) or 404
FileGetAddressesRespond(s) ==
    /\ req[s].pc = "gaRead" /\ req[s].kind = "fileGetAddresses"
    /\ LET found == {i \in DOMAIN dataFile : dataFile[i].id = req[s].id}
       IN req' = [req EXCEPT ![s] =
                    IF found # {}
                    THEN Done("fileGetAddresses", req[s].sid, 200) @@
                         [id |-> req[s].id, body |-> dataFile[Min(found)].addresses]
                    ELSE Done("fileGetAddresses", req[s].sid, 404) @@ [id |-> req[s].id]]
    /\ UNCHANGED <<variant, users, communities, accessLogs, lastAccessTimes, dataFile,
                   accessLogsFile, sessions, sweep, clock, nextId, started, accepted>>

(***************************************************************************)
(* GET /api: no requireAuth in front of the handler (the rate limiter of   *)
(* server.js lets requests through below its limit)                        *)
(***************************************************************************)
GetApi(s, sid) ==
    Receive(s, [pc |-> "apiGet", kind |-> "getApi", sid |-> sid])

\* server.js: const snapshot = await db.collection('communities').get();
\* res.json({ communities });   part_001: res.sendFile(data.json)
GetApiRespond(s) ==
    /\ req[s].pc = "apiGet" /\ req[s].kind = "getApi"
    /\ req' = [req EXCEPT ![s] = Done("getApi", req[s].sid, 200) @@ [body |-> Stored]]
    /\ UNCHANGED <<variant, users, communities, accessLogs, lastAccessTimes, dataFile,
                   accessLogsFile, sessions, sweep, clock, nextId, started, accepted>>

(***************************************************************************)
(* SpecAddr: codes are added to addresses, address lists and the whole     *)
(* store are read, one request at a time, on either server.                *)
(***************************************************************************)
NextAddr ==
    \/ /\ Quiet
       /\ \/ \E tg \in CodeTargets :
                \/ PostCodeBegin("r1", "su", tg[1], tg[2], "T+2")
                \/ FilePostCodeBegin("r1", "su", tg[1], tg[2], "T+2")
          \/ \E sid \in {"su", "anon"}, id \in {1, 9} :
                \/ GetAddresses("r1", sid, id)
                \/ FileGetAddressesBegin("r1", sid, id)
          \/ \E sid \in {"su", "anon"} : GetApi("r1", sid)
    \/ GetApiRespond("r1")
    \/ PostCodeGet("r1")
    \/ PostCodeUpdate("r1")
    \/ FilePostCodeRead("r1")
    \/ FilePostCodeWrite("r1")
    \/ FileGetAddressesRespond("r1")
    \/ Tick(1)

SpecAddr == InitSweep /\ [][NextAddr]_vars

\* C22: GET /api/communities/:id/addresses from a session with a userId is
\* answered 200 with the stored address list of the community with that id
\* when there is one, and 404 when there is none.
C22_GetAddresses ==
    [][\A s \in Slots :
          ( /\ req'[s] # req[s] /\ req'[s].pc = "done"
            /\ req'[s].kind \in {"getAddresses", "fileGetAddresses"}
            /\ sessions[req'[s].sid].userId # NoUser )
          => LET found == {k \in DOMAIN Stored : Stored[k].id = req'[s].id}
             IN IF found # {}
                THEN /\ req'[s].status = 200
                     /\ "body" \in DOMAIN req'[s]
                     /\ req'[s].body = Stored[Min(found)].addresses
                ELSE req'[s].status = 404
      ]_vars

(***************************************************************************)
(* SpecLive: codes are added by up to MaxReqs requests, each interleaved   *)
(* with the sweeps of a timer that keeps firing, on server.js.  Fairness: *)
(* the timer fires again after a sweep, every await of the sweep resolves, *)
(* and the store's reads do not fail forever.                              *)
(***************************************************************************)
InitLive ==
    /\ InitCommon
    /\ variant = "firestore"
    /\ communities = (1 :> [SeedCommunity EXCEPT !.addresses = <<[id |-> 11, codes |-> <<>>]>>])
    /\ dataFile = <<>>
    /\ accessLogsFile = <<>>

NextLive ==
    \/ PostCodeBegin("r1", "su", 1, 11, "T+0")
    \/ PostCodeGet("r1")
    \/ PostCodeUpdate("r1")
    \/ SweepTimer
    \/ \E readOk \in BOOLEAN : SweepRead(readOk)
    \/ SweepWriteGet
    \/ SweepCommit
    \/ Tick(1)

SpecLive ==
    /\ InitLive
    /\ [][NextLive]_vars
    /\ WF_vars(SweepTimer)
    /\ SF_vars(SweepRead(TRUE))
    /\ WF_vars(SweepWriteGet)
    /\ WF_vars(SweepCommit)

\* the stored codes, of every address of every community
StoredCodes ==
    UNION {UNION {Range(Stored[k].addresses[a].codes) : a \in DOMAIN Stored[k].addresses} :
              k \in DOMAIN Stored}

\* a code with this id whose expiresAt has passed is in the store
ExpiredStored(id) ==
    \E code \in StoredCodes :
        /\ code.id = id
        /\ newDate(code.expiresAt) # NaN /\ newDate(code.expiresAt) < clock

\* C23: every code whose expiresAt has passed is eventually absent from the
\* store, while the sweep timer keeps firing and its writes succeed, also
\* when requests that add codes to the same community run concurrently.
C23_ExpiredEventuallyGone ==
    \A id \in StartTime..(StartTime + MaxTicks) :
        ExpiredStored(id) ~> ~ExpiredStored(id)

\* C23 witness: a sweep has removed codes, and a code that had expired before
\* that sweep read the store is stored again: a concurrent request that had
\* read the addresses before the sweep wrote them back after it.
C23_Witness ==
    /\ sweep.pc = "idle" /\ "log" \in DOMAIN sweep
    /\ \E code \in StoredCodes :
          /\ newDate(code.expiresAt) # NaN /\ newDate(code.expiresAt) < sweep.now
          /\ code.id < sweep.now

(***************************************************************************)
(* SpecRace: requests that add codes run between the awaits of the sweep,  *)
(* on either server.                                                       *)
(***************************************************************************)
NextRace ==
    \/ \E e \in {"T-1", "T+2"} :
          \/ PostCodeBegin("r1", "su", 1, 11, e)
          \/ FilePostCodeBegin("r1", "su", 1, 11, e)
    \/ PostCodeGet("r1")
    \/ PostCodeUpdate("r1")
    \/ FilePostCodeRead("r1")
    \/ FilePostCodeWrite("r1")
    \/ SweepStart
    \/ \E readOk \in BOOLEAN : SweepRead(readOk)
    \/ SweepWriteGet
    \/ SweepCommit
    \/ FileSweepWrite
    \/ Tick(1)

SpecRace == InitSweep /\ [][NextRace]_vars

\* C24: a sweep that finds no expired code goes idle without writing, and the
\* commit of a sweep's write deletes no community and no code that is stored,
\* and not expired, when the write commits, also when a code was added
\* between the sweep's read and its write.
C24_SweepRemovesOnlyExpired ==
    [][/\ (SweepCommit \/ FileSweepWrite)
          => /\ \A code \in StoredCodes : ExpiresLater(code, clock) => code \in StoredCodes'
             /\ {Stored[k].id : k \in DOMAIN Stored} = {Stored'[k].id : k \in DOMAIN Stored'}
       /\ ( /\ SweepRead(TRUE)
            /\ \A code \in StoredCodes : ExpiresLater(code, clock) )
          => sweep'.pc = "idle"
      ]_vars

\* C25: in no reachable state is a user's stored role admin while some
\* community's allowedUsers contains that user's username: a promotion changes
\* the role and purges the allow-lists in one atomic step.
C25_PromotionAtomic ==
    \A i \in DOMAIN users :
        users[i].role = "admin"
        => \A c \in DOMAIN communities :
              ~Includes(communities[c].allowedUsers, users[i].username)

(***************************************************************************)
(* SpecLogRace: access attempts of two players are logged and the          *)
(* community is deleted, two requests in flight, on either server.         *)
(***************************************************************************)
NextLogRace ==
    \/ \E s \in Slots, p \in {"c", "d"} :
          \/ LogAccessBegin(s, "Oak", p)
          \/ FileLogAccessBegin(s, "Oak", p)
    \/ \E s \in Slots : LogAccessLookup(s)
    \/ \E s \in Slots : LogAccessAdd(s)
    \/ \E s \in Slots : FileLogAccessReadLogs(s)
    \/ \E s \in Slots : FileLogAccessReadData(s)
    \/ \E s \in Slots : FileLogAccessWrite(s)
    \/ \E s \in Slots : DeleteCommunityBegin(s, "sa", 1)
    \/ \E s \in Slots : DeleteCommunityGetDoc(s)
    \/ \E s \in Slots : DeleteCommunityGetLogs(s)
    \/ \E s \in Slots : DeleteCommunityCommit(s)
    \/ \E s \in Slots : FileDeleteCommunityBegin(s, "sa", 1)
    \/ \E s \in Slots : FileDeleteCommunityRead(s)
    \/ \E s \in Slots : FileDeleteCommunityWrite(s)
    \/ \E s \in Slots : FileDeleteCommunityLogsRead(s)
    \/ \E s \in Slots : FileDeleteCommunityLogsWrite(s)
    \/ Tick(DebounceMs - 1)

SpecLogRace == InitLogs /\ [][NextLogRace]_vars

\* the stored access-log entries, each with the name of its community
LogEntries ==
    IF variant = "firestore"
    THEN {<<accessLogs[l].community, l, accessLogs[l]>> : l \in DOMAIN accessLogs}
    ELSE UNION {{<<accessLogsFile[k].name, i, accessLogsFile[k].logs[i]>> :
                    i \in DOMAIN accessLogsFile[k].logs} : k \in DOMAIN accessLogsFile}

\* C26: a stored access-log entry is still stored, unchanged, after every
\* step, except a step of the deletion of a community with the entry's
\* community name; in particular after every step of a log-access post for
\* another player.
C26_LogEntriesStay ==
    [][\A e \in LogEntries :
          \/ e \in LogEntries'
          \/ \E s \in Slots :
                /\ "name" \in DOMAIN req[s] /\ req[s].name = e[1]
                /\ req[s].kind \in {"deleteCommunity", "fileDeleteCommunity"}
                /\ req'[s] # req[s]
      ]_vars

\* C27: a log-access post for the pair (c1, p1) is answered 429 only when a
\* post for that same pair was accepted less than 5000 ms before; an accepted
\* post for another pair never causes the rejection.
C27_DebouncePerPair ==
    [][\A s \in Slots :
          ( /\ InFlight(s) /\ req[s].kind = "logAccess"
            /\ req'[s].pc = "done" /\ req'[s].status = 429 )
          => /\ <<req[s].community, req[s].player>> \in DOMAIN accepted
             /\ clock - accepted[<<req[s].community, req[s].player>>] < DebounceMs
      ]_vars

\* C28: a request on a session whose user record has been deleted does not
\* pass requireAuth (it is answered 401), and a request to an admin-only
\* route on a session whose user's stored role is user does not pass
\* requireAdmin (it is answered 403).
C28_SessionFollowsUserRecord ==
    [][\A s \in Slots :
          LET sid == req'[s].sid
              userId == sessions[sid].userId
              adminOnly == {"postCommunity", "deleteCommunity", "register", "postUser",
                            "deleteUser", "putAllowedUsers", "putRole"}
              authOnly == {"getCommunities", "changePassword", "addUser"}
          IN ( /\ Free(s) /\ req'[s] # req[s]
               /\ req'[s].kind \in adminOnly \cup authOnly
               /\ userId # NoUser )
             => /\ userId \notin DOMAIN users
                   => req'[s].pc = "done" /\ req'[s].status = 401
                /\ ( /\ userId \in DOMAIN users /\ users[userId].role = "user"
                     /\ req'[s].kind \in adminOnly )
                   => req'[s].pc = "done" /\ req'[s].status = 403
      ]_vars

\* C29: no address holds two codes with the same id, also when two codes are
\* added within the same clock millisecond.
C29_CodeIdsUnique ==
    \A k \in DOMAIN Stored : \A a \in DOMAIN Stored[k].addresses :
        LET codes == Stored[k].addresses[a].codes
        IN \A i, j \in DOMAIN codes : codes[i].id = codes[j].id => i = j

\* C30: no answer to a request whose session carries no userId holds
\* community data (names, addresses, codes, allow-lists).
C30_NoDataWithoutLogin ==
    \A s \in Slots :
        (req[s].pc = "done" /\ sessions[req[s].sid].userId = NoUser)
        => "body" \notin DOMAIN req[s]

====
